---- MODULE Spec2Model ----
(***************************************************************************)
(* Folder / document store of the document-management API: the folder and  *)
(* file repositories, the folder, file and document services, the folder   *)
(* and document HTTP routes and the unified listing GET /api/files.        *)
(*                                                                         *)
(* The relational store executes each query as written; its two tables     *)
(* carry the foreign keys of the initial migration (ON DELETE CASCADE).     *)
(* Every handler runs to completion before the next one starts, except in  *)
(* the specifications of concurrent requests, where the requests in flight *)
(* (calls) take one store query at a time.                                 *)
(***************************************************************************)
EXTENDS Integers, Sequences, FiniteSets, TLC

VARIABLES folders, documents, nextFolderId, nextDocId, clock, last, calls

vars == <<folders, documents, nextFolderId, nextDocId, clock, last, calls>>

store == <<folders, documents, nextFolderId, nextDocId>>

----------------------------------------------------------------------------
(* Bounds of the model *)

MaxFolders == 3
MaxDocs == 1
DocMaxFolders == 1
DocMaxDocs == 1

(* JavaScript null and undefined (an absent field of a patch or query) *)
NULL == 0 - 1
UNDEF == 0 - 2

CreatedBy == "u"

----------------------------------------------------------------------------
(* Rows *)

FolderRow(fs, id) ==
  [id |-> id, name |-> fs[id].name, parent_id |-> fs[id].parent_id,
   created_by |-> fs[id].created_by, created_at |-> fs[id].created_at]

DocRow(ds, id) ==
  [id |-> id, name |-> ds[id].name, type |-> ds[id].type, size |-> ds[id].size,
   folder_id |-> ds[id].folder_id, created_by |-> ds[id].created_by,
   created_at |-> ds[id].created_at]

(* A function with one key removed / a set of keys removed *)
Without(f, ks) == [k \in (DOMAIN f) \ ks |-> f[k]]

(* A function extended or overwritten at one key *)
With(f, k, v) == [x \in (DOMAIN f) \cup {k} |-> IF x = k THEN v ELSE f[x]]

(* A patch applied to a row: the fields present in the patch replace the row's *)
Patched(row, patch) ==
  [k \in DOMAIN row |-> IF k \in DOMAIN patch THEN patch[k] ELSE row[k]]

----------------------------------------------------------------------------
(* The store: foreign keys *)

(* The tables are created without their foreign keys *)
FkOff(fs, ref) == TRUE

(* folders.parent_id and documents.folder_id reference folders.id *)
FkOk(fs, ref) == ref = NULL \/ ref \in DOMAIN fs

(* Folders reached from the set s by following child links, s included *)
RECURSIVE CascadeClosure(_, _)
CascadeClosure(fs, s) ==
  LET more == {c \in DOMAIN fs : fs[c].parent_id \in s} \ s
  IN IF more = {} THEN s ELSE CascadeClosure(fs, s \cup more)

(* The row alone is deleted: the foreign keys do not cascade *)
DeleteFolderRowOnly(st, id) == [f |-> Without(st.f, {id}), d |-> st.d]

(* DELETE FROM folders WHERE id = ?, with ON DELETE CASCADE on both keys *)
DeleteFolderRow(st, id) ==
  IF id \notin DOMAIN st.f THEN st
  ELSE LET gone == CascadeClosure(st.f, {id})
       IN [f |-> Without(st.f, gone),
           d |-> Without(st.d, {x \in DOMAIN st.d : st.d[x].folder_id \in gone})]

(* The WHERE clause is lost: every document is deleted *)
DeleteDocumentsEverywhere(st, id) == [f |-> st.f, d |-> <<>>]

(* DELETE FROM documents WHERE folder_id = ? *)
DeleteDocumentsOfFolder(st, id) ==
  [f |-> st.f,
   d |-> Without(st.d, {x \in DOMAIN st.d : st.d[x].folder_id = id})]

----------------------------------------------------------------------------
(* Folder repository *)

folderFindById(fs, id) == IF id \in DOMAIN fs THEN <<FolderRow(fs, id)>> ELSE <<>>

(* findAll(parentId) with a number: the ids of the rows WHERE parent_id = ? *)
folderFindAll(fs, parentId) == {c \in DOMAIN fs : fs[c].parent_id = parentId}

(* The proper ancestors of id, by parent links *)
RECURSIVE AncestorsFrom(_, _, _)
AncestorsFrom(fs, id, seen) ==
  IF id \notin DOMAIN fs \/ fs[id].parent_id = NULL \/ fs[id].parent_id \notin DOMAIN fs
    THEN seen
  ELSE IF fs[id].parent_id \in seen THEN seen
  ELSE AncestorsFrom(fs, fs[id].parent_id, seen \cup {fs[id].parent_id})

Ancestors(fs, id) == AncestorsFrom(fs, id, {})

OnCycle(fs, id) == id \in Ancestors(fs, id)

(* The parent chain of id never reaches a root: it runs into a cycle *)
ChainLoops(fs, id) == \E a \in Ancestors(fs, id) \cup {id} : OnCycle(fs, a)

(* remove(id): the store after the call.  Only evaluated when it returns. *)
RECURSIVE folderRemove(_, _)
RECURSIVE RemoveEach(_, _)
RemoveEach(st, subfolders) ==
  IF subfolders = {} THEN st
  ELSE LET sub == CHOOSE c \in subfolders : TRUE
       IN RemoveEach(folderRemove(st, sub), subfolders \ {sub})

folderRemove(st, id) ==
  IF folderFindById(st.f, id) = <<>> THEN st
  ELSE LET afterSubs == RemoveEach(st, folderFindAll(st.f, id))
           afterDocs == DeleteDocumentsOfFolder(afterSubs, id)
       IN DeleteFolderRow(afterDocs, id)

(* remove(id) returns: the recursion over child folders comes to an end *)
folderRemoveReturns(fs, id) == ~ OnCycle(fs, id)

(* The parent_id column is left out of the INSERT *)
folderCreateWithoutParent(fs, insertId, folder, now) ==
  With(fs, insertId, [name |-> folder.name, parent_id |-> NULL,
                      created_by |-> folder.created_by, created_at |-> now])

(* create(folder): INSERT with created_at = new Date(), then findById(insertId) *)
folderCreate(fs, insertId, folder, now) ==
  With(fs, insertId, [name |-> folder.name, parent_id |-> folder.parent_id,
                      created_by |-> folder.created_by, created_at |-> now])

(* The UPDATE is issued without its WHERE id = ? *)
folderUpdateEveryRow(fs, id, data) == [f \in DOMAIN fs |-> Patched(fs[f], data)]

(* update(id, data): UPDATE folders SET data WHERE id = ? *)
folderUpdate(fs, id, data) ==
  IF id \in DOMAIN fs THEN With(fs, id, Patched(fs[id], data)) ELSE fs

(* getPath(id): the chain of parent links, root first, id last; empty when   *)
(* the folder does not exist.  Only evaluated when the walk reaches a root.  *)
(* The walk appends each parent instead of prepending it: target first *)
RECURSIVE getPathTargetFirst(_, _)
getPathTargetFirst(fs, id) ==
  IF id \notin DOMAIN fs THEN <<>>
  ELSE IF fs[id].parent_id = NULL THEN <<FolderRow(fs, id)>>
  ELSE <<FolderRow(fs, id)>> \o getPathTargetFirst(fs, fs[id].parent_id)

RECURSIVE getPath(_, _)
getPath(fs, id) ==
  IF id \notin DOMAIN fs THEN <<>>
  ELSE IF fs[id].parent_id = NULL THEN <<FolderRow(fs, id)>>
  ELSE Append(getPath(fs, fs[id].parent_id), FolderRow(fs, id))

getPathReturns(fs, id) == ~ ChainLoops(fs, id)

----------------------------------------------------------------------------
(* What the last handler did: its operation, target id, folder reference,   *)
(* result, whether it issued an INSERT or UPDATE, the rows it returned and  *)
(* the number of folder and document rows its DELETEs removed.              *)

NoPage == [page |-> 0, limit |-> 0, total |-> 0, totalPages |-> 0]

Outcome(op, id, ref, res, wrote, ret) ==
  [op |-> op, id |-> id, ref |-> ref, res |-> res, wrote |-> wrote,
   ret |-> ret, rows |-> <<0, 0>>, pg |-> NoPage, q |-> <<>>, again |-> FALSE]

(* A list result: [] or rows *)
Returned(rows) == IF rows = <<>> THEN "empty" ELSE "ok"

Removed(before, after) == Cardinality(DOMAIN before) - Cardinality(DOMAIN after)

(* data.k !== undefined: a field that is absent from the patch is undefined *)
HasField(data, k) == k \in DOMAIN data

----------------------------------------------------------------------------
(* Folder service *)

(* Only the candidate parent itself is compared with the target *)
PathEndsAt(parentPath, id) ==
  parentPath # <<>> /\ parentPath[Len(parentPath)].id = id

(* parentPath.some(folder => folder.id === id) *)
PathHas(parentPath, id) == \E i \in 1..Len(parentPath) : parentPath[i].id = id

(* The parent is not looked up before the insert *)
createFolderUnchecked(data) ==
  /\ folders' = folderCreate(folders, nextFolderId, data, clock)
  /\ nextFolderId' = nextFolderId + 1
  /\ last' = Outcome("createFolder", nextFolderId, data.parent_id, "ok", TRUE,
                     folderFindById(folders', nextFolderId))
  /\ UNCHANGED <<calls, documents, nextDocId, clock>>

createFolder(data) ==
  IF data.parent_id # NULL /\ folderFindById(folders, data.parent_id) = <<>>
  THEN /\ last' = Outcome("createFolder", NULL, data.parent_id, "null", FALSE, <<>>)
       /\ UNCHANGED <<calls, folders, documents, nextFolderId, nextDocId, clock>>
  ELSE /\ folders' = folderCreate(folders, nextFolderId, data, clock)
       /\ nextFolderId' = nextFolderId + 1
       /\ last' = Outcome("createFolder", nextFolderId, data.parent_id, "ok", TRUE,
                          folderFindById(folders', nextFolderId))
       /\ UNCHANGED <<calls, documents, nextDocId, clock>>

(* Only the target is looked up; the patch goes to the store as it is *)
updateFolderUnchecked(id, data) ==
  LET newParent == IF HasField(data, "parent_id") THEN data.parent_id ELSE UNDEF
  IN
  IF folderFindById(folders, id) = <<>>
  THEN /\ last' = Outcome("updateFolder", id, newParent, "null", FALSE, <<>>)
       /\ UNCHANGED <<calls, folders, documents, nextFolderId, nextDocId, clock>>
  ELSE /\ folders' = folderUpdate(folders, id, data)
       /\ last' = Outcome("updateFolder", id, newParent, "ok", TRUE,
                          folderFindById(folders', id))
       /\ UNCHANGED <<calls, documents, nextFolderId, nextDocId, clock>>

updateFolder(id, data) ==
  LET newParent == IF HasField(data, "parent_id") THEN data.parent_id ELSE UNDEF
      checked == newParent # UNDEF /\ newParent # NULL
  IN
  IF folderFindById(folders, id) = <<>>
  THEN /\ last' = Outcome("updateFolder", id, newParent, "null", FALSE, <<>>)
       /\ UNCHANGED <<calls, folders, documents, nextFolderId, nextDocId, clock>>
  ELSE IF checked /\ folderFindById(folders, newParent) = <<>>
  THEN /\ last' = Outcome("updateFolder", id, newParent, "null", FALSE, <<>>)
       /\ UNCHANGED <<calls, folders, documents, nextFolderId, nextDocId, clock>>
  ELSE /\ checked => getPathReturns(folders, newParent)
       /\ IF checked /\ PathHas(getPath(folders, newParent), id)
          THEN /\ last' = Outcome("updateFolder", id, newParent, "null", FALSE, <<>>)
               /\ UNCHANGED <<calls, folders, documents, nextFolderId, nextDocId, clock>>
          ELSE /\ folders' = folderUpdate(folders, id, data)
               /\ last' = Outcome("updateFolder", id, newParent, "ok", TRUE,
                                  folderFindById(folders', id))
               /\ UNCHANGED <<calls, documents, nextFolderId, nextDocId, clock>>

(* The folder is looked up again after the deletion, as update does *)
deleteFolderLookupAfter(id) ==
  IF folderFindById(folders, id) = <<>>
  THEN /\ last' = Outcome("deleteFolder", id, NULL, "null", FALSE, <<>>)
       /\ UNCHANGED <<calls, folders, documents, nextFolderId, nextDocId, clock>>
  ELSE /\ folderRemoveReturns(folders, id)
       /\ LET after == folderRemove([f |-> folders, d |-> documents], id)
          IN /\ folders' = after.f
             /\ documents' = after.d
       /\ last' = [Outcome("deleteFolder", id, NULL, "ok", FALSE,
                           folderFindById(folders', id))
                   EXCEPT !.rows = <<Removed(folders, folders'),
                                     Removed(documents, documents')>>]
       /\ UNCHANGED <<calls, nextFolderId, nextDocId, clock>>

deleteFolder(id) ==
  IF folderFindById(folders, id) = <<>>
  THEN /\ last' = Outcome("deleteFolder", id, NULL, "null", FALSE, <<>>)
       /\ UNCHANGED <<calls, folders, documents, nextFolderId, nextDocId, clock>>
  ELSE /\ folderRemoveReturns(folders, id)
       /\ LET after == folderRemove([f |-> folders, d |-> documents], id)
          IN /\ folders' = after.f
             /\ documents' = after.d
       /\ last' = [Outcome("deleteFolder", id, NULL, "ok", FALSE,
                           folderFindById(folders, id))
                   EXCEPT !.rows = <<Removed(folders, folders'),
                                     Removed(documents, documents')>>]
       /\ UNCHANGED <<calls, nextFolderId, nextDocId, clock>>

(* getFolderPath(id): the path as the repository returns it *)
getFolderPath(id) ==
  /\ getPathReturns(folders, id)
  /\ last' = Outcome("getFolderPath", id, NULL, Returned(getPath(folders, id)), FALSE,
                     getPath(folders, id))
  /\ UNCHANGED <<calls, folders, documents, nextFolderId, nextDocId, clock>>

----------------------------------------------------------------------------
(* Folder routes *)

(* z.string().min(1).max(255); a name is a sequence of characters *)
ZodName(name) == Len(name) >= 1 /\ Len(name) <= 255

(* parent_id || null *)
OrNull(ref) == IF ref = UNDEF \/ ref = NULL \/ ref = 0 THEN NULL ELSE ref

PostFolder(body) ==
  IF ~ ZodName(body.name)
  THEN /\ last' = Outcome("POST /folders", NULL, body.parent_id, "400", FALSE, <<>>)
       /\ UNCHANGED <<calls, folders, documents, nextFolderId, nextDocId, clock>>
  ELSE IF ~ FkOk(folders, OrNull(body.parent_id))
  THEN /\ last' = Outcome("POST /folders", NULL, body.parent_id, "500", TRUE, <<>>)
       /\ UNCHANGED <<calls, folders, documents, nextFolderId, nextDocId, clock>>
  ELSE /\ folders' = folderCreate(folders, nextFolderId,
                        [name |-> body.name, parent_id |-> OrNull(body.parent_id),
                         created_by |-> body.created_by], clock)
       /\ nextFolderId' = nextFolderId + 1
       /\ last' = Outcome("POST /folders", nextFolderId, body.parent_id, "201", TRUE,
                          folderFindById(folders', nextFolderId))
       /\ UNCHANGED <<calls, documents, nextDocId, clock>>

PutFolder(id, body) ==
  LET newParent == IF HasField(body, "parent_id") THEN body.parent_id ELSE UNDEF
  IN
  IF HasField(body, "name") /\ ~ ZodName(body.name)
  THEN /\ last' = Outcome("PUT /folders", id, newParent, "400", FALSE, <<>>)
       /\ UNCHANGED <<calls, folders, documents, nextFolderId, nextDocId, clock>>
  ELSE IF DOMAIN body = {}
  THEN /\ last' = Outcome("PUT /folders", id, newParent, "400", FALSE, <<>>)
       /\ UNCHANGED <<calls, folders, documents, nextFolderId, nextDocId, clock>>
  ELSE IF id \notin DOMAIN folders
  THEN /\ last' = Outcome("PUT /folders", id, newParent, "404", TRUE, <<>>)
       /\ UNCHANGED <<calls, folders, documents, nextFolderId, nextDocId, clock>>
  ELSE IF newParent # UNDEF /\ ~ FkOk(folders, newParent)
  THEN /\ last' = Outcome("PUT /folders", id, newParent, "500", TRUE, <<>>)
       /\ UNCHANGED <<calls, folders, documents, nextFolderId, nextDocId, clock>>
  ELSE /\ folders' = folderUpdate(folders, id, body)
       /\ last' = Outcome("PUT /folders", id, newParent, "200", TRUE,
                          folderFindById(folders', id))
       /\ UNCHANGED <<calls, documents, nextFolderId, nextDocId, clock>>

DeleteFolderRoute(id) ==
  IF id \notin DOMAIN folders
  THEN /\ last' = Outcome("DELETE /folders", id, NULL, "404", FALSE, <<>>)
       /\ UNCHANGED <<calls, folders, documents, nextFolderId, nextDocId, clock>>
  ELSE /\ LET after == DeleteFolderRow([f |-> folders, d |-> documents], id)
          IN /\ folders' = after.f
             /\ documents' = after.d
       /\ last' = [Outcome("DELETE /folders", id, NULL, "200", FALSE,
                           folderFindById(folders, id))
                   EXCEPT !.rows = <<Removed(folders, folders'),
                                     Removed(documents, documents')>>]
       /\ UNCHANGED <<calls, nextFolderId, nextDocId, clock>>

----------------------------------------------------------------------------
(* File repository and document repository (the documents table) *)

fileFindById(ds, id) == IF id \in DOMAIN ds THEN <<DocRow(ds, id)>> ELSE <<>>

(* create(file): INSERT with created_at = new Date(), then findById(insertId) *)
fileCreate(ds, insertId, file, now) ==
  With(ds, insertId, [name |-> file.name, type |-> file.type, size |-> file.size,
                      folder_id |-> file.folder_id, created_by |-> file.created_by,
                      created_at |-> now])

(* update(id, data): UPDATE documents SET data WHERE id = ? *)
fileUpdate(ds, id, data) ==
  IF id \in DOMAIN ds THEN With(ds, id, Patched(ds[id], data)) ELSE ds

(* remove(id): DELETE FROM documents WHERE id = ? *)
fileRemove(ds, id) == Without(ds, {id})

----------------------------------------------------------------------------
(* File service *)

(* name.trim(): leading and trailing blanks removed *)
RECURSIVE TrimLeft(_)
TrimLeft(name) ==
  IF name # <<>> /\ Head(name) = " " THEN TrimLeft(Tail(name)) ELSE name

RECURSIVE TrimRight(_)
TrimRight(name) ==
  IF name # <<>> /\ name[Len(name)] = " "
  THEN TrimRight(SubSeq(name, 1, Len(name) - 1)) ELSE name

Trim(name) == TrimRight(TrimLeft(name))

(* data.size < 0 *)
SizeRejected(size) == size < 0

(* The name is tested without trim() *)
NameRejectedUntrimmed(name) == name = <<>>

(* !data.name.trim() *)
NameRejected(name) == Trim(name) = <<>>

createFile(data) ==
  IF data.folder_id # NULL /\ folderFindById(folders, data.folder_id) = <<>>
  THEN /\ last' = Outcome("createFile", NULL, data.folder_id, "null", FALSE, <<>>)
       /\ UNCHANGED <<calls, folders, documents, nextFolderId, nextDocId, clock>>
  ELSE IF SizeRejected(data.size)
  THEN /\ last' = Outcome("createFile", NULL, data.folder_id, "null", FALSE, <<>>)
       /\ UNCHANGED <<calls, folders, documents, nextFolderId, nextDocId, clock>>
  ELSE IF NameRejected(data.name)
  THEN /\ last' = Outcome("createFile", NULL, data.folder_id, "null", FALSE, <<>>)
       /\ UNCHANGED <<calls, folders, documents, nextFolderId, nextDocId, clock>>
  ELSE /\ documents' = fileCreate(documents, nextDocId, data, clock)
       /\ nextDocId' = nextDocId + 1
       /\ last' = Outcome("createFile", nextDocId, data.folder_id, "ok", TRUE,
                          fileFindById(documents', nextDocId))
       /\ UNCHANGED <<calls, folders, nextFolderId, clock>>

updateFile(id, data) ==
  LET newFolder == IF HasField(data, "folder_id") THEN data.folder_id ELSE UNDEF
  IN
  IF fileFindById(documents, id) = <<>>
  THEN /\ last' = Outcome("updateFile", id, newFolder, "null", FALSE, <<>>)
       /\ UNCHANGED <<calls, folders, documents, nextFolderId, nextDocId, clock>>
  ELSE IF newFolder # UNDEF /\ newFolder # NULL
          /\ folderFindById(folders, newFolder) = <<>>
  THEN /\ last' = Outcome("updateFile", id, newFolder, "null", FALSE, <<>>)
       /\ UNCHANGED <<calls, folders, documents, nextFolderId, nextDocId, clock>>
  ELSE IF HasField(data, "size") /\ SizeRejected(data.size)
  THEN /\ last' = Outcome("updateFile", id, newFolder, "null", FALSE, <<>>)
       /\ UNCHANGED <<calls, folders, documents, nextFolderId, nextDocId, clock>>
  ELSE IF HasField(data, "name") /\ NameRejected(data.name)
  THEN /\ last' = Outcome("updateFile", id, newFolder, "null", FALSE, <<>>)
       /\ UNCHANGED <<calls, folders, documents, nextFolderId, nextDocId, clock>>
  ELSE /\ documents' = fileUpdate(documents, id, data)
       /\ last' = Outcome("updateFile", id, newFolder, "ok", TRUE,
                          fileFindById(documents', id))
       /\ UNCHANGED <<calls, folders, nextFolderId, nextDocId, clock>>

deleteFile(id) ==
  IF fileFindById(documents, id) = <<>>
  THEN /\ last' = Outcome("deleteFile", id, NULL, "null", FALSE, <<>>)
       /\ UNCHANGED <<calls, folders, documents, nextFolderId, nextDocId, clock>>
  ELSE /\ documents' = fileRemove(documents, id)
       /\ last' = Outcome("deleteFile", id, NULL, "ok", FALSE,
                          fileFindById(documents, id))
       /\ UNCHANGED <<calls, folders, nextFolderId, nextDocId, clock>>

----------------------------------------------------------------------------
(* Document service: the repository calls are issued without validation;    *)
(* the store refuses a folder_id that names no folder (foreign key) and the *)
(* error propagates to the caller.                                          *)

createDocument(data) ==
  IF ~ FkOk(folders, data.folder_id)
  THEN /\ last' = Outcome("createDocument", NULL, data.folder_id, "throw", TRUE, <<>>)
       /\ UNCHANGED <<calls, folders, documents, nextFolderId, nextDocId, clock>>
  ELSE /\ documents' = fileCreate(documents, nextDocId, data, clock)
       /\ nextDocId' = nextDocId + 1
       /\ last' = Outcome("createDocument", nextDocId, data.folder_id, "ok", TRUE,
                          fileFindById(documents', nextDocId))
       /\ UNCHANGED <<calls, folders, nextFolderId, clock>>

updateDocument(id, data) ==
  LET newFolder == IF HasField(data, "folder_id") THEN data.folder_id ELSE UNDEF
  IN
  IF fileFindById(documents, id) = <<>>
  THEN /\ last' = Outcome("updateDocument", id, newFolder, "null", FALSE, <<>>)
       /\ UNCHANGED <<calls, folders, documents, nextFolderId, nextDocId, clock>>
  ELSE IF newFolder # UNDEF /\ ~ FkOk(folders, newFolder)
  THEN /\ last' = Outcome("updateDocument", id, newFolder, "throw", TRUE, <<>>)
       /\ UNCHANGED <<calls, folders, documents, nextFolderId, nextDocId, clock>>
  ELSE /\ documents' = fileUpdate(documents, id, data)
       /\ last' = Outcome("updateDocument", id, newFolder, "ok", TRUE,
                          fileFindById(documents', id))
       /\ UNCHANGED <<calls, folders, nextFolderId, nextDocId, clock>>

----------------------------------------------------------------------------
(* Document routes *)

(* z.number().positive() *)
ZodPositive(n) == n > 0

(* POST /api/documents of routes/documents.ts: the schema, then the INSERT *)
PostDocument(body) ==
  IF ~ (ZodName(body.name) /\ ZodPositive(body.size))
  THEN /\ last' = Outcome("POST /documents", NULL, body.folder_id, "400", FALSE, <<>>)
       /\ UNCHANGED <<calls, folders, documents, nextFolderId, nextDocId, clock>>
  ELSE IF ~ FkOk(folders, OrNull(body.folder_id))
  THEN /\ last' = Outcome("POST /documents", NULL, body.folder_id, "500", TRUE, <<>>)
       /\ UNCHANGED <<calls, folders, documents, nextFolderId, nextDocId, clock>>
  ELSE /\ documents' = fileCreate(documents, nextDocId,
                          [name |-> body.name, type |-> body.type, size |-> body.size,
                           folder_id |-> OrNull(body.folder_id),
                           created_by |-> body.created_by], clock)
       /\ nextDocId' = nextDocId + 1
       /\ last' = Outcome("POST /documents", nextDocId, body.folder_id, "201", TRUE,
                          fileFindById(documents', nextDocId))
       /\ UNCHANGED <<calls, folders, nextFolderId, clock>>

(* POST /api/documents of the service-backed router: createDocumentSchema    *)
(* accepts any number as size, then documentService.createDocument           *)
PostDocumentService(body) ==
  IF ~ FkOk(folders, body.folder_id)
  THEN /\ last' = Outcome("POST /documents (service)", NULL, body.folder_id, "500",
                          TRUE, <<>>)
       /\ UNCHANGED <<calls, folders, documents, nextFolderId, nextDocId, clock>>
  ELSE /\ documents' = fileCreate(documents, nextDocId, body, clock)
       /\ nextDocId' = nextDocId + 1
       /\ last' = Outcome("POST /documents (service)", nextDocId, body.folder_id, "201",
                          TRUE, fileFindById(documents', nextDocId))
       /\ UNCHANGED <<calls, folders, nextFolderId, clock>>

(* PUT /api/documents/:id of routes/documents.ts: name and folder_id only *)
PutDocument(id, body) ==
  LET newFolder == IF HasField(body, "folder_id") THEN body.folder_id ELSE UNDEF
  IN
  IF HasField(body, "name") /\ ~ ZodName(body.name)
  THEN /\ last' = Outcome("PUT /documents", id, newFolder, "400", FALSE, <<>>)
       /\ UNCHANGED <<calls, folders, documents, nextFolderId, nextDocId, clock>>
  ELSE IF DOMAIN body = {}
  THEN /\ last' = Outcome("PUT /documents", id, newFolder, "400", FALSE, <<>>)
       /\ UNCHANGED <<calls, folders, documents, nextFolderId, nextDocId, clock>>
  ELSE IF id \notin DOMAIN documents
  THEN /\ last' = Outcome("PUT /documents", id, newFolder, "404", TRUE, <<>>)
       /\ UNCHANGED <<calls, folders, documents, nextFolderId, nextDocId, clock>>
  ELSE IF newFolder # UNDEF /\ ~ FkOk(folders, newFolder)
  THEN /\ last' = Outcome("PUT /documents", id, newFolder, "500", TRUE, <<>>)
       /\ UNCHANGED <<calls, folders, documents, nextFolderId, nextDocId, clock>>
  ELSE /\ documents' = fileUpdate(documents, id, body)
       /\ last' = Outcome("PUT /documents", id, newFolder, "200", TRUE,
                          fileFindById(documents', id))
       /\ UNCHANGED <<calls, folders, nextFolderId, nextDocId, clock>>

----------------------------------------------------------------------------
(* The store after construction: both tables empty, AUTO_INCREMENT at 1 *)

Init ==
  /\ folders = <<>>
  /\ documents = <<>>
  /\ nextFolderId = 1
  /\ nextDocId = 1
  /\ clock = 0
  /\ last = Outcome("none", NULL, NULL, "none", FALSE, <<>>)
  /\ calls = <<>>

(* Request payloads *)
NameA == <<"a">>
NameBlank == <<" ">>
NameEmpty == <<>>

FolderIds == 1..MaxFolders
FolderRefs == {NULL} \cup FolderIds
DocIds == 1..MaxDocs

FolderData(r) == [name |-> NameA, parent_id |-> r, created_by |-> CreatedBy]

FileData(n, s, r) ==
  [name |-> n, type |-> "pdf", size |-> s, folder_id |-> r, created_by |-> CreatedBy]

ParentPatches == {[parent_id |-> r] : r \in FolderRefs}
FolderPatches == {[folder_id |-> r] : r \in FolderRefs}

(* Folder tree with documents: folders and files are created, folders are *)
(* re-parented (existing folders, onto existing parents or the root)       *)
(* through PUT /api/folders/:id and deleted through the service and        *)
(* through DELETE /api/folders/:id.                                        *)
Next ==
  \/ /\ nextFolderId <= MaxFolders
     /\ \E r \in FolderRefs : createFolder(FolderData(r))
  \/ \E id \in DOMAIN folders, r \in {NULL} \cup DOMAIN folders :
       PutFolder(id, [parent_id |-> r])
  \/ \E id \in FolderIds : deleteFolder(id)
  \/ \E id \in DOMAIN folders : DeleteFolderRoute(id)
  \/ /\ nextDocId <= MaxDocs
     /\ \E r \in {NULL} \cup DOMAIN folders : createFile(FileData(NameA, 1, r))

Spec == Init /\ [][Next]_vars

(* Folders only: every folder operation of the service and of the routes *)
NextFolders ==
  \/ /\ nextFolderId <= MaxFolders
     /\ \E r \in FolderRefs : createFolder(FolderData(r))
  \/ \E id \in FolderIds, data \in ParentPatches : updateFolder(id, data)
  \/ \E id \in FolderIds : deleteFolder(id)
  \/ /\ nextFolderId <= MaxFolders
     /\ \E r \in FolderRefs \cup {UNDEF} : PostFolder(FolderData(r))
  \/ \E id \in FolderIds, body \in ParentPatches : PutFolder(id, body)
  \/ \E id \in FolderIds : DeleteFolderRoute(id)
  \/ \E id \in FolderIds : getFolderPath(id)

SpecFolders == Init /\ [][NextFolders]_vars

----------------------------------------------------------------------------
(* Folder subtrees *)

(* F and every folder that has F among its ancestors *)
Subtree(fs, F) == {F} \cup {c \in DOMAIN fs : F \in Ancestors(fs, c)}

DeleteDone(F) ==
  /\ last'.op \in {"deleteFolder", "DELETE /folders"}
  /\ last'.id = F
  /\ last'.res \in {"ok", "200"}

(* C1: when deleteFolder(F) or DELETE /api/folders/F has completed on an    *)
(* existing folder F, then F, every transitive descendant folder of F and   *)
(* every document whose folder_id is F or a descendant of F are absent.     *)
C1_SubtreeAbsent ==
  [][\A F \in FolderIds :
       DeleteDone(F) =>
         LET sub == Subtree(folders, F)
         IN /\ sub \cap DOMAIN folders' = {}
            /\ \A d \in DOMAIN documents :
                 documents[d].folder_id \in sub => d \notin DOMAIN documents'
            /\ \A d \in DOMAIN documents' : documents'[d].folder_id \notin sub]_vars

(* A folder with a child, a grandchild and a document below it was deleted *)
C1_Witness ==
  /\ last.op = "deleteFolder"
  /\ last.res = "ok"
  /\ last.rows[1] >= 3
  /\ last.rows[2] >= 1

(* C2: deleteFolder(F) leaves unchanged every folder that is neither F nor  *)
(* a descendant of F, and every document whose folder_id is null or names a *)
(* folder outside the subtree of F.                                         *)
C2_OutsideUnchanged ==
  [][\A F \in FolderIds :
       DeleteDone(F) =>
         LET sub == Subtree(folders, F)
         IN /\ \A g \in (DOMAIN folders) \ sub :
                 g \in DOMAIN folders' /\ folders'[g] = folders[g]
            /\ \A d \in DOMAIN documents :
                 documents[d].folder_id \notin sub =>
                   d \in DOMAIN documents' /\ documents'[d] = documents[d]]_vars

(* A folder with a descendant was deleted while another folder and a        *)
(* document outside the subtree are still there                             *)
C2_Witness ==
  /\ last.op = "deleteFolder"
  /\ last.res = "ok"
  /\ last.rows[1] >= 2
  /\ DOMAIN folders # {}
  /\ DOMAIN documents # {}

UpdateFolderDone(F, D) ==
  /\ last'.op = "updateFolder"
  /\ last'.id = F
  /\ last'.ref = D

(* C3: for existing folders F and D, updateFolder(F, {parent_id: D}) returns *)
(* the rejection result and leaves the store unchanged whenever D = F or D   *)
(* is a transitive descendant of F; F's id then appears in getPath(D).       *)
C3_CyclicParentRejected ==
  [][\A F \in DOMAIN folders, D \in DOMAIN folders :
       (UpdateFolderDone(F, D) /\ D \in Subtree(folders, F)) =>
         /\ last'.res = "null"
         /\ last'.wrote = FALSE
         /\ UNCHANGED store
         /\ PathHas(getPath(folders, D), F)]_vars

(* updateFolder was rejected for a new parent that is a grandchild (or      *)
(* deeper) of the target                                                    *)
C3_Witness ==
  /\ last.op = "updateFolder"
  /\ last.res = "null"
  /\ last.id \in DOMAIN folders
  /\ last.ref \in DOMAIN folders
  /\ last.ref # last.id
  /\ folders[last.ref].parent_id # last.id
  /\ last.id \in Ancestors(folders, last.ref)

(* C4: after any sequence of folder create, update and delete operations    *)
(* through the service and the folder routes, no folder is its own ancestor *)
C4_Acyclic == \A f \in DOMAIN folders : ~ OnCycle(folders, f)

----------------------------------------------------------------------------
(* Documents: every create and update path of the file service, the        *)
(* document service and the document routes, over folders that come and go *)

DocFolderIds == 1..DocMaxFolders
DocFolderRefs == {NULL} \cup DocFolderIds
DocDocIds == 1..DocMaxDocs

Names == {NameA, NameBlank, NameEmpty}
Sizes == {0 - 1, 0, 1}

FileInputs == {FileData(n, s, r) : n \in Names, s \in Sizes, r \in DocFolderRefs}

FilePatches ==
  {[folder_id |-> r] : r \in DocFolderRefs}
    \cup {[size |-> s] : s \in Sizes}
    \cup {[name |-> n] : n \in Names}
    \cup {[name |-> n, size |-> s] : n \in {NameA, NameBlank}, s \in {0 - 1, 1}}
    \cup {[folder_id |-> r, size |-> 0 - 1] : r \in DocFolderIds}

DocumentInputs == {FileData(NameA, s, r) : s \in {0 - 1, 1}, r \in DocFolderRefs}

DocumentPatches == {[folder_id |-> r] : r \in DocFolderRefs} \cup {[size |-> 0 - 1]}

PostBodies ==
  {FileData(n, s, r) : n \in {NameA, NameEmpty}, s \in Sizes,
                       r \in DocFolderRefs \cup {UNDEF}}

PutBodies ==
  {[folder_id |-> r] : r \in DocFolderRefs} \cup {[name |-> NameA], [name |-> NameEmpty]}

NextDocs ==
  \/ /\ nextFolderId <= DocMaxFolders
     /\ createFolder(FolderData(NULL))
  \/ \E id \in DocFolderIds : deleteFolder(id)
  \/ /\ nextDocId <= DocMaxDocs
     /\ \E data \in FileInputs : createFile(data)
  \/ \E id \in DocDocIds, data \in FilePatches : updateFile(id, data)
  \/ \E id \in DocDocIds : deleteFile(id)
  \/ /\ nextDocId <= DocMaxDocs
     /\ \E data \in DocumentInputs : createDocument(data)
  \/ \E id \in DocDocIds, data \in DocumentPatches : updateDocument(id, data)
  \/ /\ nextDocId <= DocMaxDocs
     /\ \E body \in PostBodies : PostDocument(body)
  \/ /\ nextDocId <= DocMaxDocs
     /\ \E body \in DocumentInputs : PostDocumentService(body)
  \/ \E id \in DocDocIds, body \in PutBodies : PutDocument(id, body)

SpecDocs == Init /\ [][NextDocs]_vars

(* A name that is empty or made of blanks only *)
IsBlankName(name) == \A i \in 1..Len(name) : name[i] = " "

ValidNameAndSize(data) ==
  /\ ("name" \in DOMAIN data => ~ IsBlankName(data.name))
  /\ ("size" \in DOMAIN data => data.size >= 0)

(* The outcome of a create or update for the folder reference K *)
FolderCheckedFirst(K) ==
  /\ (last'.res = "ok") <=> (K \in DOMAIN folders)
  /\ (K \notin DOMAIN folders) => (last'.wrote = FALSE /\ UNCHANGED store)

(* C5: creating or updating a document with a non-null folder_id = K and    *)
(* otherwise valid name and size succeeds iff a folder K exists, and the    *)
(* existence check comes before any INSERT or UPDATE is issued; for         *)
(* createFile, createDocument, updateFile and updateDocument.               *)
C5_FolderCheckedBeforeWrite ==
  [][/\ \A data \in FileInputs \cup DocumentInputs :
          (data.folder_id # NULL /\ ValidNameAndSize(data)
             /\ (createFile(data) \/ createDocument(data)))
            => FolderCheckedFirst(data.folder_id)
     /\ \A id \in DOMAIN documents, data \in FilePatches \cup DocumentPatches :
          ("folder_id" \in DOMAIN data /\ data.folder_id # NULL /\ ValidNameAndSize(data)
             /\ (updateFile(id, data) \/ updateDocument(id, data)))
            => FolderCheckedFirst(data.folder_id)]_vars

Rejected == last'.res = "null" /\ last'.wrote = FALSE /\ UNCHANGED store

(* C6: createFile and updateFile return the rejection result and issue no   *)
(* store mutation whenever the (new) name is empty or blank, the (new) size *)
(* is negative, the referenced non-null folder does not exist or (for       *)
(* updateFile) the target document does not exist.                          *)
C6_InvalidFileRejected ==
  [][/\ \A data \in FileInputs :
          (createFile(data)
             /\ (\/ IsBlankName(data.name)
                 \/ data.size < 0
                 \/ (data.folder_id # NULL /\ data.folder_id \notin DOMAIN folders)))
            => Rejected
     /\ \A id \in DocDocIds, data \in FilePatches :
          (updateFile(id, data)
             /\ (\/ id \notin DOMAIN documents
                 \/ ("name" \in DOMAIN data /\ IsBlankName(data.name))
                 \/ ("size" \in DOMAIN data /\ data.size < 0)
                 \/ ("folder_id" \in DOMAIN data /\ data.folder_id # NULL
                       /\ data.folder_id \notin DOMAIN folders)))
            => Rejected]_vars

(* updateFile was rejected for an existing document although the folder it  *)
(* names (if any) exists: the name or the size of the patch was refused     *)
C6_Witness ==
  /\ last.op = "updateFile"
  /\ last.res = "null"
  /\ last.id \in DOMAIN documents
  /\ last.ref \in {UNDEF, NULL} \cup DOMAIN folders

(* C7: every stored document has size >= 0 *)
C7_SizeNonNegative == \A d \in DOMAIN documents : documents[d].size >= 0

----------------------------------------------------------------------------
(* Unified listing GET /api/files (routes/files.ts) *)

Min(a, b) == IF a < b THEN a ELSE b
Max(a, b) == IF a > b THEN a ELSE b

(* The elements of a set of ids as a sequence in ascending order: the order *)
(* in which the store returns the rows of a SELECT without ORDER BY         *)
RECURSIVE IdsAscending(_)
IdsAscending(S) ==
  IF S = {} THEN <<>>
  ELSE LET m == CHOOSE x \in S : \A y \in S : x <= y
       IN <<m>> \o IdsAscending(S \ {m})

(* name LIKE pattern, with the wildcards % and _ *)
RECURSIVE Like(_, _)
Like(name, pattern) ==
  IF pattern = <<>> THEN name = <<>>
  ELSE IF Head(pattern) = "%"
    THEN Like(name, Tail(pattern)) \/ (name # <<>> /\ Like(Tail(name), pattern))
  ELSE /\ name # <<>>
       /\ (Head(pattern) = "_" \/ Head(pattern) = Head(name))
       /\ Like(Tail(name), Tail(pattern))

(* `%${search}%` *)
SearchTerm(search) == <<"%">> \o search \o <<"%">>

(* if (parent_id) ... else ...: the rows of one parent, or the root level *)
ParentFilter(parent_id, ref) ==
  IF parent_id # UNDEF /\ parent_id # 0
  THEN ref = parent_id
  ELSE ref = NULL \/ ref = 0

(* if (search) ...: name LIKE searchTerm; an absent search is the empty string *)
SearchFilter(search, name) ==
  IF search # <<>> THEN Like(name, SearchTerm(search)) ELSE TRUE

(* foldersQuery.execute(), mapped to File *)
folderFiles(fs, parent_id, search) ==
  LET ids == IdsAscending({f \in DOMAIN fs :
                 /\ ParentFilter(parent_id, fs[f].parent_id)
                 /\ SearchFilter(search, fs[f].name)})
  IN [i \in 1..Len(ids) |->
        [id |-> ids[i], name |-> fs[ids[i]].name, type |-> "folder", size |-> UNDEF,
         folder_id |-> fs[ids[i]].parent_id, created_by |-> fs[ids[i]].created_by,
         created_at |-> fs[ids[i]].created_at]]

(* documentsQuery.execute(), mapped to File: type is the documents.type column *)
documentFiles(ds, parent_id, search) ==
  LET ids == IdsAscending({d \in DOMAIN ds :
                 /\ ParentFilter(parent_id, ds[d].folder_id)
                 /\ SearchFilter(search, ds[d].name)})
  IN [i \in 1..Len(ids) |->
        [id |-> ids[i], name |-> ds[ids[i]].name, type |-> ds[ids[i]].type,
         size |-> ds[ids[i]].size, folder_id |-> ds[ids[i]].folder_id,
         created_by |-> ds[ids[i]].created_by, created_at |-> ds[ids[i]].created_at]]

(* The array of the previous listing is kept and appended to *)
allFilesShared(ff, df) ==
  IF last.op = "GET /files" /\ last.res = "200" THEN last.ret \o ff \o df ELSE ff \o df

(* [...folderFiles, ...documentFiles] *)
allFiles(ff, df) == ff \o df

(* The collation order of the characters of the model's names *)
CharRank(c) == IF c = " " THEN 0 ELSE IF c = "a" THEN 1 ELSE 2

(* a.name.localeCompare(b.name) *)
RECURSIVE NameCompare(_, _)
NameCompare(a, b) ==
  IF a = <<>> /\ b = <<>> THEN 0
  ELSE IF a = <<>> THEN 0 - 1
  ELSE IF b = <<>> THEN 1
  ELSE IF CharRank(Head(a)) # CharRank(Head(b))
    THEN CharRank(Head(a)) - CharRank(Head(b))
  ELSE NameCompare(Tail(a), Tail(b))

(* The collation order of the type labels of the model *)
TypeRank(t) ==
  IF t = "document" THEN 0 ELSE IF t = "folder" THEN 1 ELSE IF t = "pdf" THEN 2 ELSE 3

(* a.type.localeCompare(b.type) *)
TypeCompare(a, b) == TypeRank(a) - TypeRank(b)

(* a.size ?? 0 *)
SizeOrZero(size) == IF size = UNDEF THEN 0 ELSE size

(* The comparator handed to allFiles.sort for the given sort and order *)
Comparator(sort, order, a, b) ==
  LET asc == IF sort = "name" THEN NameCompare(a.name, b.name)
             ELSE IF sort = "type" THEN TypeCompare(a.type, b.type)
             ELSE IF sort = "size" THEN SizeOrZero(a.size) - SizeOrZero(b.size)
             ELSE a.created_at - b.created_at
  IN IF order = "asc" THEN asc ELSE 0 - asc

(* Array.prototype.sort: stable, so x goes behind every element that does   *)
(* not compare greater                                                     *)
RECURSIVE InsertSorted(_, _, _, _)
InsertSorted(sorted, x, sort, order) ==
  IF sorted = <<>> THEN <<x>>
  ELSE IF Comparator(sort, order, sorted[Len(sorted)], x) <= 0
    THEN Append(sorted, x)
  ELSE Append(InsertSorted(SubSeq(sorted, 1, Len(sorted) - 1), x, sort, order),
              sorted[Len(sorted)])

RECURSIVE SortFiles(_, _, _)
SortFiles(files, sort, order) ==
  IF files = <<>> THEN <<>>
  ELSE InsertSorted(SortFiles(SubSeq(files, 1, Len(files) - 1), sort, order),
                    files[Len(files)], sort, order)

(* Math.floor(total / limit): the last partial page is not counted *)
TotalPagesFloor(total, limit) == total \div limit

(* Math.ceil(total / limit) *)
TotalPages(total, limit) == (total + limit - 1) \div limit

(* The offset is taken to be page * limit *)
OffsetOfNextPage(page, limit) == page * limit

(* (page - 1) * limit *)
Offset(page, limit) == (page - 1) * limit

(* files.slice(start, end) *)
Slice(files, start, end) == SubSeq(files, start + 1, Min(end, Len(files)))

(* The zod defaults of the query schema; ABSENT is a string parameter that *)
(* the request does not carry                                              *)
OrDefault(v, def) == IF v = UNDEF THEN def ELSE v

ABSENT == "undefined"

StringOrDefault(v, def) == IF v = ABSENT THEN def ELSE v

(* querySchema.safeParse(req.query).success *)
QueryValid(q) ==
  /\ OrDefault(q.page, 1) > 0
  /\ OrDefault(q.limit, 10) > 0
  /\ OrDefault(q.limit, 10) <= 100

(* The merged and sorted sequence of the listing *)
SortedFiles(fs, ds, q) ==
  SortFiles(allFiles(folderFiles(fs, q.parent_id, q.search),
                     documentFiles(ds, q.parent_id, q.search)),
            StringOrDefault(q.sort, "created_at"), StringOrDefault(q.order, "desc"))

(* paginatedFiles = files.slice(offset, offset + limit) of the sorted files *)
paginatedFiles(q) ==
  LET page == OrDefault(q.page, 1)
      limit == OrDefault(q.limit, 10)
      offset == Offset(page, limit)
      sorted == SortedFiles(folders, documents, q)
  IN Slice(sorted, offset, offset + limit)

GetFiles(q) ==
  IF ~ QueryValid(q)
  THEN /\ last' = [Outcome("GET /files", NULL, q.parent_id, "400", FALSE, <<>>)
                   EXCEPT !.q = q]
       /\ UNCHANGED <<calls, folders, documents, nextFolderId, nextDocId, clock>>
  ELSE LET page == OrDefault(q.page, 1)
           limit == OrDefault(q.limit, 10)
           sorted == SortedFiles(folders, documents, q)
           total == Len(sorted)
       IN /\ last' = [Outcome("GET /files", NULL, q.parent_id, "200", FALSE,
                              paginatedFiles(q))
                      EXCEPT !.q = q,
                             !.again = (last.op = "GET /files" /\ last.res = "200"
                                          /\ last.q = q),
                             !.pg = [page |-> page, limit |-> limit, total |-> total,
                                     totalPages |-> TotalPages(total, limit)]]
          /\ UNCHANGED <<calls, folders, documents, nextFolderId, nextDocId, clock>>

----------------------------------------------------------------------------
(* GET /api/files of the UNION-based router: the counts are queried apart;  *)
(* the orderBy, limit and offset calls build new queries that are dropped,  *)
(* so the executed query is the bare UNION.                                 *)

(* eb('parent_id', '=', Number(folder_id)) or eb('parent_id', 'is', null): *)
(* folder_id is the string of the query, and the string "0" is truthy     *)
UnionFilter(folder_id, ref) ==
  IF folder_id # UNDEF THEN ref = folder_id ELSE ref = NULL

(* fn.count('id') over the filtered table *)
CountRows(table, field, folder_id) ==
  Cardinality({x \in DOMAIN table : UnionFilter(folder_id, table[x][field])})

unionRows(fs, ds, folder_id) ==
  LET fids == IdsAscending({f \in DOMAIN fs : UnionFilter(folder_id, fs[f].parent_id)})
      dids == IdsAscending({d \in DOMAIN ds : UnionFilter(folder_id, ds[d].folder_id)})
  IN [i \in 1..Len(fids) |->
        [id |-> fids[i], name |-> fs[fids[i]].name, type |-> "folder", size |-> NULL,
         folder_id |-> fs[fids[i]].parent_id, created_by |-> fs[fids[i]].created_by,
         created_at |-> fs[fids[i]].created_at]]
     \o
     [i \in 1..Len(dids) |->
        [id |-> dids[i], name |-> ds[dids[i]].name, type |-> "document",
         size |-> ds[dids[i]].size, folder_id |-> ds[dids[i]].folder_id,
         created_by |-> ds[dids[i]].created_by, created_at |-> ds[dids[i]].created_at]]

(* const files = await unionQuery.execute(): the rows of the bare UNION, *)
(* whatever the page and the limit                                      *)
unionFiles(q) == unionRows(folders, documents, q.parent_id)

GetFilesUnion(q) ==
  LET pageNumber == OrDefault(q.page, 1)
      limitNumber == OrDefault(q.limit, 10)
      folderCount == CountRows(folders, "parent_id", q.parent_id)
      documentCount == CountRows(documents, "folder_id", q.parent_id)
      totalCount == folderCount + documentCount
  IN /\ last' = [Outcome("GET /files (union)", NULL, q.parent_id, "200", FALSE,
                         unionFiles(q))
                 EXCEPT !.q = q,
                        !.pg = [page |-> pageNumber, limit |-> limitNumber,
                                total |-> totalCount,
                                totalPages |-> TotalPages(totalCount, limitNumber)]]
     /\ UNCHANGED <<calls, folders, documents, nextFolderId, nextDocId, clock>>

----------------------------------------------------------------------------
(* Listing: folders and files of several names, types, sizes and creation  *)
(* times are created and listed                                            *)

ListMaxFolders == 1
ListMaxDocs == 1

NameB == <<"b">>
NameAB == <<"a", "b">>

ListFolderInputs ==
  {[name |-> n, parent_id |-> r, created_by |-> CreatedBy] :
     n \in {NameA, NameB}, r \in {NULL, 1}}

ListFileInputs ==
  { [name |-> NameA, type |-> "pdf", size |-> 2, folder_id |-> NULL,
     created_by |-> CreatedBy],
    [name |-> NameB, type |-> "txt", size |-> 0, folder_id |-> NULL,
     created_by |-> CreatedBy],
    [name |-> NameAB, type |-> "pdf", size |-> 2, folder_id |-> 1,
     created_by |-> CreatedBy] }

Query(parent_id, search, page, limit, sort, order) ==
  [parent_id |-> parent_id, search |-> search, page |-> page, limit |-> limit,
   sort |-> sort, order |-> order]

Queries ==
  {Query(r, s, p, l, ABSENT, ABSENT) :
     r \in {UNDEF, 1}, s \in {<<>>, NameB}, p \in 1..3, l \in 1..2}
    \cup {Query(UNDEF, <<>>, p, 2, s, o) :
            p \in 1..2, s \in {"name", "type", "size", "created_at"},
            o \in {"asc", "desc"}}
    \cup {Query(UNDEF, <<>>, UNDEF, UNDEF, ABSENT, ABSENT),
          Query(0, <<>>, 1, 2, ABSENT, ABSENT),
          Query(UNDEF, <<"_">>, 1, 2, ABSENT, ABSENT),
          Query(UNDEF, <<>>, 0, 2, ABSENT, ABSENT),
          Query(UNDEF, <<>>, 1, 101, ABSENT, ABSENT)}

UnionQueries ==
  {Query(r, <<>>, p, l, ABSENT, ABSENT) : r \in {UNDEF, 1}, p \in 1..2, l \in 1..2}
    \cup {Query(0, <<>>, 1, 2, ABSENT, ABSENT)}

(* new Date() moves on; one tick per created row is enough to order them *)
Tick ==
  /\ clock < nextFolderId + nextDocId - 2
  /\ clock' = clock + 1
  /\ UNCHANGED <<calls, folders, documents, nextFolderId, nextDocId, last>>

IsListing == last.op \in {"GET /files", "GET /files (union)"}

(* A listing is followed by the same listing again or by another operation *)
NextList ==
  \/ /\ nextFolderId <= ListMaxFolders
     /\ \E data \in ListFolderInputs : createFolder(data)
  \/ /\ nextDocId <= ListMaxDocs
     /\ \E data \in ListFileInputs : createFile(data)
  \/ Tick
  \/ \E q \in Queries :
       /\ IsListing => (last.op = "GET /files" /\ last.q = q)
       /\ GetFiles(q)
  \/ \E q \in UnionQueries :
       /\ IsListing => (last.op = "GET /files (union)" /\ last.q = q)
       /\ GetFilesUnion(q)

SpecList == Init /\ [][NextList]_vars

----------------------------------------------------------------------------
(* The items a listing request asks for: those of the requested parent (of *)
(* the root level when none is requested) whose name contains the search   *)
(* text                                                                    *)

Contains(name, text) ==
  \E i \in 1..(Len(name) - Len(text) + 1) : SubSeq(name, i, i + Len(text) - 1) = text

(* The listing of routes/files.ts takes parent_id = 0 for the root level *)
RootRequested(q) ==
  q.parent_id = UNDEF \/ (last.op = "GET /files" /\ q.parent_id = 0)

(* The active filter: the requested parent, and the name against the *)
(* search text as the pattern %text% of the store's LIKE             *)
Matched(q, ref, name) ==
  /\ IF RootRequested(q) THEN ref = NULL ELSE ref = q.parent_id
  /\ q.search = <<>> \/ Like(name, <<"%">> \o q.search \o <<"%">>)

MatchedFolders(q) ==
  {f \in DOMAIN folders : Matched(q, folders[f].parent_id, folders[f].name)}

MatchedDocuments(q) ==
  {d \in DOMAIN documents : Matched(q, documents[d].folder_id, documents[d].name)}

Listed == last.op \in {"GET /files", "GET /files (union)"} /\ last.res = "200"

C9_PageIsSlice ==
  (last.op = "GET /files" /\ last.res = "200") =>
    LET sorted == SortedFiles(folders, documents, last.q)
        first == (last.pg.page - 1) * last.pg.limit
        length == Min(last.pg.limit, Max(0, Len(sorted) - first))
    IN /\ last.pg.page >= 1
       /\ last.pg.limit \in 1..100
       /\ Len(last.ret) = length
       /\ \A i \in 1..length : last.ret[i] = sorted[first + i]

(* The second page of two items, one to a page *)
C9_Witness ==
  /\ last.op = "GET /files"
  /\ last.res = "200"
  /\ last.pg.page = 2
  /\ last.pg.limit = 1
  /\ last.pg.total = 2
  /\ Len(last.ret) = 1

----------------------------------------------------------------------------
(* Folder service: rejections *)

(* C11: createFolder with a non-null parent_id that names no folder returns *)
(* the rejection result (null) and inserts nothing; with parent_id null or  *)
(* an existing parent it inserts exactly one folder.                        *)
C11_CreateFolderParentChecked ==
  [][(last'.op = "createFolder") =>
       IF last'.ref # NULL /\ last'.ref \notin DOMAIN folders
       THEN last'.res = "null" /\ last'.wrote = FALSE /\ store' = store
       ELSE /\ last'.res = "ok"
            /\ \E new \in DOMAIN folders' \ DOMAIN folders :
                 /\ DOMAIN folders' = DOMAIN folders \cup {new}
                 /\ folders'[new].parent_id = last'.ref
            /\ \A f \in DOMAIN folders : folders'[f] = folders[f]
            /\ documents' = documents]_vars

(* A create under a parent that is missing while other folders exist *)
C11_Witness ==
  /\ last.op = "createFolder"
  /\ last.res = "null"
  /\ last.ref # NULL
  /\ last.ref \notin DOMAIN folders
  /\ DOMAIN folders # {}

(* C12: updateFolder(id, data) returns the rejection result (null) and      *)
(* issues no update when the target folder does not exist or when           *)
(* data.parent_id is non-null and names a folder that does not exist.       *)
C12_UpdateFolderRejectsMissing ==
  [][(/\ last'.op = "updateFolder"
      /\ \/ last'.id \notin DOMAIN folders
         \/ (last'.ref \notin {UNDEF, NULL} /\ last'.ref \notin DOMAIN folders))
     => (last'.res = "null" /\ last'.wrote = FALSE /\ store' = store)]_vars

(* An existing folder was to be moved under a parent that does not exist *)
C12_Witness ==
  /\ last.op = "updateFolder"
  /\ last.res = "null"
  /\ last.id \in DOMAIN folders
  /\ last.ref \notin {UNDEF, NULL}
  /\ last.ref \notin DOMAIN folders

----------------------------------------------------------------------------
(* Batch operations on documents (fileRepository, fileService) *)

(* findByIds(ids): [] for an empty list, else SELECT ... WHERE id IN (ids) *)
fileFindByIds(ds, ids) ==
  IF ids = {} THEN <<>>
  ELSE LET found == IdsAscending(ids \cap DOMAIN ds)
       IN [i \in 1..Len(found) |-> DocRow(ds, found[i])]

(* The UPDATE is issued without its WHERE id IN (ids) *)
moveAllToFolder(ds, ids, folderId) ==
  [d \in DOMAIN ds |-> [ds[d] EXCEPT !.folder_id = folderId]]

(* UPDATE documents SET folder_id = folderId WHERE id IN (ids) *)
moveToFolder(ds, ids, folderId) ==
  [d \in DOMAIN ds |-> IF d \in ids THEN [ds[d] EXCEPT !.folder_id = folderId] ELSE ds[d]]

(* The destination folder is not looked up before the UPDATE *)
moveFilesUnchecked(ids, folderId) ==
  LET input == [ids |-> ids, folderId |-> folderId]
      rows == fileFindByIds(moveToFolder(documents, ids, folderId), ids)
  IN /\ documents' = moveToFolder(documents, ids, folderId)
     /\ last' = [Outcome("moveFiles", NULL, folderId, Returned(rows), rows # <<>>, rows)
                 EXCEPT !.q = input]
     /\ UNCHANGED <<calls, folders, nextFolderId, nextDocId, clock>>

moveFiles(ids, folderId) ==
  LET input == [ids |-> ids, folderId |-> folderId]
  IN
  IF folderId # NULL /\ folderFindById(folders, folderId) = <<>>
  THEN /\ last' = [Outcome("moveFiles", NULL, folderId, "empty", FALSE, <<>>)
                   EXCEPT !.q = input]
       /\ UNCHANGED <<calls, folders, documents, nextFolderId, nextDocId, clock>>
  ELSE IF fileFindByIds(documents, ids) = <<>>
  THEN /\ last' = [Outcome("moveFiles", NULL, folderId, "empty", FALSE, <<>>)
                   EXCEPT !.q = input]
       /\ UNCHANGED <<calls, folders, documents, nextFolderId, nextDocId, clock>>
  ELSE /\ documents' = moveToFolder(documents, ids, folderId)
       /\ last' = [Outcome("moveFiles", NULL, folderId,
                           Returned(fileFindByIds(documents', ids)), TRUE,
                           fileFindByIds(documents', ids))
                   EXCEPT !.q = input]
       /\ UNCHANGED <<calls, folders, nextFolderId, nextDocId, clock>>

(* The DELETE is issued without its WHERE id IN (ids) *)
bulkRemoveEverything(ds, ids) == Without(ds, DOMAIN ds)

(* DELETE FROM documents WHERE id IN (ids) *)
bulkRemove(ds, ids) == Without(ds, ids)

(* bulkDeleteFiles(ids): [] for an empty list or when no row is found, else *)
(* the rows as found before the DELETE                                      *)
bulkDeleteFiles(ids) ==
  LET input == [ids |-> ids, folderId |-> NULL]
      files == fileFindByIds(documents, ids)
  IN
  IF ids = {} \/ files = <<>>
  THEN /\ last' = [Outcome("bulkDeleteFiles", NULL, NULL, "empty", FALSE, <<>>)
                   EXCEPT !.q = input]
       /\ UNCHANGED <<calls, folders, documents, nextFolderId, nextDocId, clock>>
  ELSE /\ documents' = bulkRemove(documents, ids)
       /\ last' = [Outcome("bulkDeleteFiles", NULL, NULL, "ok", FALSE, files)
                   EXCEPT !.q = input,
                          !.rows = <<0, Removed(documents, documents')>>]
       /\ UNCHANGED <<calls, folders, nextFolderId, nextDocId, clock>>

BulkMaxFolders == 2
BulkMaxDocs == 2

BulkFolderRefs == {NULL} \cup (1..BulkMaxFolders)
BulkIdLists == SUBSET (1..BulkMaxDocs)

(* Files are created at the root and in folders and moved in batches *)
NextBulk ==
  \/ /\ nextFolderId <= BulkMaxFolders
     /\ createFolder(FolderData(NULL))
  \/ /\ nextDocId <= BulkMaxDocs
     /\ \E r \in BulkFolderRefs : createFile(FileData(NameA, 1, r))
  \/ \E ids \in BulkIdLists, folderId \in BulkFolderRefs : moveFiles(ids, folderId)
  \/ \E ids \in BulkIdLists : bulkDeleteFiles(ids)

SpecBulk == Init /\ [][NextBulk]_vars

(* C13: moveFiles(ids, folderId) with a non-null folderId that names no     *)
(* folder returns the empty result and changes no document; otherwise,      *)
(* after it returns, every existing document whose id is in ids has         *)
(* folder_id = folderId and every other document is unchanged.              *)
C13_MoveFiles ==
  [][(last'.op = "moveFiles") =>
       LET ids == last'.q.ids
           K == last'.q.folderId
       IN IF K # NULL /\ K \notin DOMAIN folders
          THEN last'.ret = <<>> /\ store' = store
          ELSE /\ DOMAIN documents' = DOMAIN documents
               /\ \A d \in DOMAIN documents :
                    IF d \in ids THEN documents'[d].folder_id = K
                    ELSE documents'[d] = documents[d]
               /\ folders' = folders]_vars

(* One of two documents was moved into a folder, the other stayed behind *)
C13_Witness ==
  /\ last.op = "moveFiles"
  /\ last.res = "ok"
  /\ last.q.folderId # NULL
  /\ \E d \in DOMAIN documents : d \in last.q.ids /\ documents[d].folder_id = last.q.folderId
  /\ \E d \in DOMAIN documents :
       d \notin last.q.ids /\ documents[d].folder_id # last.q.folderId

----------------------------------------------------------------------------
(* C14: folder remove(id) on an id that is not in the store returns null,   *)
(* raises no error and leaves the store unchanged; on an existing id it     *)
(* returns the folder record as it was looked up before any deletion, also  *)
(* for a leaf folder with no children.                                      *)
C14_RemoveReturnsSnapshot ==
  [][(last'.op = "deleteFolder") =>
       IF last'.id \notin DOMAIN folders
       THEN last'.res = "null" /\ last'.ret = <<>> /\ store' = store
       ELSE /\ last'.res = "ok"
            /\ Len(last'.ret) = 1
            /\ last'.ret[1].id = last'.id
            /\ \A k \in DOMAIN folders[last'.id] : last'.ret[1][k] = folders[last'.id][k]
            /\ last'.id \notin DOMAIN folders']_vars

(* A leaf folder was removed while another folder stays in the store *)
C14_Witness ==
  /\ last.op = "deleteFolder"
  /\ last.res = "ok"
  /\ last.rows = <<1, 0>>
  /\ Len(last.ret) = 1
  /\ last.ret[1].id = last.id
  /\ DOMAIN folders # {}

----------------------------------------------------------------------------
(* C15: getPath(id) on an existing folder of an acyclic store returns the   *)
(* ancestor chain in order: the first element has parent_id null, the last  *)
(* element is the folder id itself and each element is the parent of the    *)
(* next; on an id that names no folder it returns the empty sequence.       *)
C15_PathRootFirst ==
  (last.op = "getFolderPath") =>
    IF last.id \notin DOMAIN folders
    THEN last.ret = <<>>
    ELSE /\ Len(last.ret) >= 1
         /\ last.ret[1].parent_id = NULL
         /\ last.ret[Len(last.ret)].id = last.id
         /\ \A i \in 1..(Len(last.ret) - 1) : last.ret[i + 1].parent_id = last.ret[i].id
         /\ \A i \in 1..Len(last.ret) :
              /\ last.ret[i].id \in DOMAIN folders
              /\ last.ret[i].parent_id = folders[last.ret[i].id].parent_id

(* The path of a folder two levels below a root *)
C15_Witness ==
  /\ last.op = "getFolderPath"
  /\ Len(last.ret) = 3
  /\ last.ret[3].id = last.id
  /\ last.ret[1].id # last.ret[2].id

----------------------------------------------------------------------------
(* Create and read back (folderService, fileService over the repositories) *)

getFolderById(id) ==
  /\ last' = Outcome("getFolderById", id, NULL,
                     IF folderFindById(folders, id) = <<>> THEN "null" ELSE "ok", FALSE,
                     folderFindById(folders, id))
  /\ UNCHANGED <<calls, folders, documents, nextFolderId, nextDocId, clock>>

getFileById(id) ==
  /\ last' = Outcome("getFileById", id, NULL,
                     IF fileFindById(documents, id) = <<>> THEN "null" ELSE "ok", FALSE,
                     fileFindById(documents, id))
  /\ UNCHANGED <<calls, folders, documents, nextFolderId, nextDocId, clock>>

ReadMaxFolders == 2
ReadMaxDocs == 1

(* Rows are created, read back by id and deleted, so that later creates *)
(* meet a store with gaps in its ids                                    *)
NextRead ==
  \/ /\ nextFolderId <= ReadMaxFolders
     /\ \E data \in ListFolderInputs : createFolder(data)
  \/ /\ nextDocId <= ReadMaxDocs
     /\ \E data \in ListFileInputs : createFile(data)
  \/ \E id \in 1..ReadMaxFolders : getFolderById(id)
  \/ \E id \in 1..ReadMaxDocs : getFileById(id)
  \/ \E id \in 1..ReadMaxFolders : deleteFolder(id)
  \/ \E id \in 1..ReadMaxDocs : deleteFile(id)

SpecRead == Init /\ [][NextRead]_vars

PayloadOf(row) == [k \in (DOMAIN row) \ {"id", "created_at"} |-> row[k]]

(* C16: for folders and documents, create(payload) followed by findById of  *)
(* the returned id, with no mutation in between, yields a record whose      *)
(* payload fields equal the created payload, under a generated id that no   *)
(* other row holds: the id is new to the table and every row that was       *)
(* there is still there, as it was.                                         *)
C16_CreateThenFindById ==
  [][/\ \A data \in ListFolderInputs :
          (createFolder(data) /\ last'.res = "ok") =>
            /\ last'.id \notin DOMAIN folders
            /\ \A f \in DOMAIN folders : f \in DOMAIN folders' /\ folders'[f] = folders[f]
            /\ Len(last'.ret) = 1
            /\ last'.ret[1].id = last'.id
            /\ PayloadOf(last'.ret[1]) = data
     /\ \A data \in ListFileInputs :
          (createFile(data) /\ last'.res = "ok") =>
            /\ last'.id \notin DOMAIN documents
            /\ \A d \in DOMAIN documents :
                 d \in DOMAIN documents' /\ documents'[d] = documents[d]
            /\ Len(last'.ret) = 1
            /\ last'.ret[1].id = last'.id
            /\ PayloadOf(last'.ret[1]) = data
     /\ (/\ last.op = "createFolder" /\ last.res = "ok"
         /\ last'.op = "getFolderById" /\ last'.id = last.id)
        => last'.ret = last.ret
     /\ (/\ last.op = "createFile" /\ last.res = "ok"
         /\ last'.op = "getFileById" /\ last'.id = last.id)
        => last'.ret = last.ret]_vars

(* A folder created under a parent was read back right after its creation *)
C16_Witness ==
  /\ last.op = "getFolderById"
  /\ last.res = "ok"
  /\ last.id = nextFolderId - 1
  /\ last.ret[1].parent_id # NULL
  /\ last.ret[1].name = NameB

----------------------------------------------------------------------------
(* C17: a business-rule rejection (missing or cyclic parent, missing folder *)
(* reference, negative size, empty name) is signalled distinctly from a     *)
(* not-found outcome: the result of a rejected updateFolder or updateFile   *)
(* on an existing target differs from the result for a missing target,      *)
(* which is null.                                                           *)
C17_RejectionDistinctFromNotFound ==
  [][/\ (last'.op = "updateFolder" /\ last'.id \in DOMAIN folders /\ last'.res # "ok")
          => last'.res # "null"
     /\ (last'.op = "updateFile" /\ last'.id \in DOMAIN documents /\ last'.res # "ok")
          => last'.res # "null"]_vars

----------------------------------------------------------------------------
(* The parent reference every item of a listing must carry *)
ItemsUnder(parent) ==
  \A i \in 1..Len(last.ret) :
    /\ last.ret[i].folder_id = parent
    /\ last.q.search = <<>> \/ Contains(last.ret[i].name, last.q.search)

(* C18: in GET /api/files, when the parent parameter is absent every        *)
(* returned item is root-level (parent reference null) and when it is K     *)
(* every returned item has parent reference K, for folders and documents    *)
(* alike; with search set every returned name contains the search string.   *)
C18_ItemsOfRequestedParent ==
  Listed => ItemsUnder(IF last.q.parent_id = UNDEF THEN NULL ELSE last.q.parent_id)

(* C19: every item of the unified listing carries type "folder" if it comes *)
(* from the folders table and type "document" if it comes from the          *)
(* documents table, and no other type value occurs; folder items have size  *)
(* undefined or 0 and document items have their stored size.                *)
C19_ItemTypeAndSize ==
  (last.op = "GET /files" /\ last.res = "200") =>
    \A i \in 1..Len(last.ret) :
      LET item == last.ret[i]
      IN /\ item.type \in {"folder", "document"}
         /\ item.type = "folder" =>
              (item.id \in DOMAIN folders /\ item.size \in {UNDEF, 0})
         /\ item.type = "document" =>
              (item.id \in DOMAIN documents /\ item.size = documents[item.id].size)

----------------------------------------------------------------------------
(* The order of two items by a sort key *)

NameLeq(a, b) ==
  \/ a = b
  \/ \E k \in 1..(Len(a) + 1) :
       /\ k <= Len(b)
       /\ \A j \in 1..(k - 1) : a[j] = b[j]
       /\ k = Len(a) + 1 \/ CharRank(a[k]) < CharRank(b[k])

SizeKey(size) == IF size \in {UNDEF, NULL} THEN 0 ELSE size

KeyLeq(sort, a, b) ==
  IF sort = "name" THEN NameLeq(a.name, b.name)
  ELSE IF sort = "type" THEN TypeRank(a.type) <= TypeRank(b.type)
  ELSE IF sort = "size" THEN SizeKey(a.size) <= SizeKey(b.size)
  ELSE a.created_at <= b.created_at

(* The sort and order in force: the defaults are created_at desc in the *)
(* listing of routes/files.ts and name asc in the UNION-based listing   *)
SortInForce ==
  IF last.q.sort # ABSENT THEN last.q.sort
  ELSE IF last.op = "GET /files" THEN "created_at" ELSE "name"

OrderInForce ==
  IF last.q.order # ABSENT THEN last.q.order
  ELSE IF last.op = "GET /files" THEN "desc" ELSE "asc"

(* C20: for every sort in {name, type, size, created_at} and order in       *)
(* {asc, desc}, the sequence returned by GET /api/files is ordered by that  *)
(* key in that direction across folders and documents together: any two     *)
(* consecutive items are in non-decreasing key order for asc and            *)
(* non-increasing for desc, a missing size counting as 0.                   *)
C20_SortedByKey ==
  Listed =>
    \A i \in 1..(Len(last.ret) - 1) :
      IF OrderInForce = "asc"
      THEN KeyLeq(SortInForce, last.ret[i], last.ret[i + 1])
      ELSE KeyLeq(SortInForce, last.ret[i + 1], last.ret[i])

----------------------------------------------------------------------------
(* C21: bulkRemove(ids) removes every document whose id is in ids and no    *)
(* other document and returns those documents as they were before the       *)
(* deletion; with an empty ids list, or when no id matches, it returns the  *)
(* empty result and changes nothing.                                        *)
C21_BulkRemove ==
  [][(last'.op = "bulkDeleteFiles") =>
       LET ids == last'.q.ids
           hit == ids \cap DOMAIN documents
       IN IF hit = {}
          THEN last'.ret = <<>> /\ store' = store
          ELSE /\ DOMAIN documents' = (DOMAIN documents) \ ids
               /\ \A d \in DOMAIN documents' : documents'[d] = documents[d]
               /\ folders' = folders
               /\ Len(last'.ret) = Cardinality(hit)
               /\ \A d \in hit :
                    \E i \in 1..Len(last'.ret) :
                      /\ last'.ret[i].id = d
                      /\ \A k \in DOMAIN documents[d] : last'.ret[i][k] = documents[d][k]]_vars

(* One of two documents was removed and returned; the other document is *)
(* still stored                                                         *)
C21_Witness ==
  /\ last.op = "bulkDeleteFiles"
  /\ last.res = "ok"
  /\ Len(last.ret) = 1
  /\ Cardinality(DOMAIN documents) = 1
  /\ last.ret[1].id \notin DOMAIN documents

----------------------------------------------------------------------------
(* Requests in flight.  An async handler gives up control at every await of *)
(* a store query; between two awaits the queries of other requests run.     *)
(* Each query is one statement and takes effect at once.                    *)

RaceMaxFolders == 2
RaceMaxDocs == 1

(* One activation of the repository's remove(id): where it is, the row it   *)
(* read, the subfolders still to be removed and the subfolders it listed    *)
Frame(id) ==
  [id |-> id, pc |-> "findById", folder |-> <<>>, subfolders |-> <<>>, seen |-> {}]

(* A request: its handler, folder reference, document ids, position, the   *)
(* activations of remove, the id of the row it inserted and its result      *)
Call(op, ref, ids, pc, stack) ==
  [op |-> op, ref |-> ref, ids |-> ids, pc |-> pc, stack |-> stack,
   id |-> NULL, res |-> "pending", ret |-> <<>>]

Concurrent == Outcome("concurrent", NULL, NULL, "none", FALSE, <<>>)

InFlight(p, op, pc) == p \in DOMAIN calls /\ calls[p].op = op /\ calls[p].pc = pc

Done(c, res, ret) == [c EXCEPT !.pc = "done", !.res = res, !.ret = ret]

Top(stack) == stack[Len(stack)]

(* remove(id) is called while a remove of the same id is still active: the *)
(* same recursion repeats from here on                                     *)
Reentered(stack) ==
  \E i, j \in 1..Len(stack) : i < j /\ stack[i].id = stack[j].id

(* The folder row is deleted right after the loop *)
AfterSubfoldersRowOnly == "deleteFolder"

(* The statement after the loop over the subfolders *)
AfterSubfolders == "deleteDocuments"

(* for (const subfolder of subfolders) await this.remove(subfolder.id) *)
ForSubfolders(stack) ==
  LET top == Top(stack)
  IN IF top.subfolders = <<>>
     THEN [stack EXCEPT ![Len(stack)].pc = AfterSubfolders]
     ELSE Append([stack EXCEPT ![Len(stack)].subfolders = Tail(top.subfolders)],
                 Frame(Head(top.subfolders)))

(* An activation returns: its caller goes on with the loop, the outermost *)
(* one hands its value to deleteFolder                                    *)
Return(c, value) ==
  LET rest == SubSeq(c.stack, 1, Len(c.stack) - 1)
  IN IF rest = <<>>
     THEN [Done(c, IF value = <<>> THEN "null" ELSE "ok", value) EXCEPT !.stack = <<>>]
     ELSE [c EXCEPT !.stack = ForSubfolders(rest)]

StartDeleteFolder(p, id) ==
  /\ p \notin DOMAIN calls
  /\ calls' = With(calls, p, Call("deleteFolder", id, {}, "remove", <<Frame(id)>>))
  /\ last' = Concurrent
  /\ UNCHANGED <<folders, documents, nextFolderId, nextDocId, clock>>

(* const folder = await this.findById(id); if (!folder) return null *)
RemoveFindById(p) ==
  /\ InFlight(p, "deleteFolder", "remove")
  /\ Top(calls[p].stack).pc = "findById"
  /\ ~ Reentered(calls[p].stack)
  /\ LET c == calls[p]
         n == Len(c.stack)
         folder == folderFindById(folders, c.stack[n].id)
     IN calls' = [calls EXCEPT ![p] =
                    IF folder = <<>> THEN Return(c, <<>>)
                    ELSE [c EXCEPT !.stack[n].pc = "findAll",
                                   !.stack[n].folder = folder]]
  /\ UNCHANGED <<folders, documents, nextFolderId, nextDocId, clock, last>>

(* const subfolders = await this.findAll(id) *)
RemoveFindAll(p) ==
  /\ InFlight(p, "deleteFolder", "remove")
  /\ Top(calls[p].stack).pc = "findAll"
  /\ LET c == calls[p]
         n == Len(c.stack)
         subfolders == folderFindAll(folders, c.stack[n].id)
         listed == [c.stack EXCEPT ![n].pc = "for",
                                   ![n].subfolders = IdsAscending(subfolders),
                                   ![n].seen = subfolders]
     IN calls' = [calls EXCEPT ![p].stack = ForSubfolders(listed)]
  /\ UNCHANGED <<folders, documents, nextFolderId, nextDocId, clock, last>>

(* await db.deleteFrom('documents').where('folder_id', '=', id) *)
RemoveDeleteDocuments(p) ==
  /\ InFlight(p, "deleteFolder", "remove")
  /\ Top(calls[p].stack).pc = "deleteDocuments"
  /\ LET c == calls[p]
         n == Len(c.stack)
     IN /\ documents' =
             DeleteDocumentsOfFolder([f |-> folders, d |-> documents], c.stack[n].id).d
        /\ calls' = [calls EXCEPT ![p].stack[n].pc = "deleteFolder"]
  /\ UNCHANGED <<folders, nextFolderId, nextDocId, clock, last>>

(* await db.deleteFrom('folders').where('id', '=', id); return folder *)
RemoveDeleteFolder(p) ==
  /\ InFlight(p, "deleteFolder", "remove")
  /\ Top(calls[p].stack).pc = "deleteFolder"
  /\ LET c == calls[p]
         top == Top(c.stack)
         after == DeleteFolderRow([f |-> folders, d |-> documents], top.id)
     IN /\ folders' = after.f
        /\ documents' = after.d
        /\ calls' = [calls EXCEPT ![p] = Return(c, top.folder)]
  /\ UNCHANGED <<nextFolderId, nextDocId, clock, last>>

(* createFolder(data) with a parent: the parent is looked up, the row is *)
(* inserted and read back                                                *)
StartCreateFolder(p, ref) ==
  /\ p \notin DOMAIN calls
  /\ calls' = With(calls, p, Call("createFolder", ref, {}, "findById", <<>>))
  /\ last' = Concurrent
  /\ UNCHANGED <<folders, documents, nextFolderId, nextDocId, clock>>

CreateFolderFindParent(p) ==
  /\ InFlight(p, "createFolder", "findById")
  /\ calls' = [calls EXCEPT ![p] =
                 IF folderFindById(folders, @.ref) = <<>> THEN Done(@, "null", <<>>)
                 ELSE [@ EXCEPT !.pc = "insert"]]
  /\ UNCHANGED <<folders, documents, nextFolderId, nextDocId, clock, last>>

(* INSERT INTO folders: the store refuses a parent_id that names no folder *)
CreateFolderInsert(p) ==
  /\ InFlight(p, "createFolder", "insert")
  /\ IF ~ FkOk(folders, calls[p].ref)
     THEN /\ calls' = [calls EXCEPT ![p] = Done(@, "throws", <<>>)]
          /\ UNCHANGED <<folders, nextFolderId>>
     ELSE /\ folders' = folderCreate(folders, nextFolderId, FolderData(calls[p].ref), clock)
          /\ nextFolderId' = nextFolderId + 1
          /\ calls' = [calls EXCEPT ![p].pc = "read", ![p].id = nextFolderId]
  /\ UNCHANGED <<documents, nextDocId, clock, last>>

(* return await this.findById(insertId) *)
CreateFolderRead(p) ==
  /\ InFlight(p, "createFolder", "read")
  /\ LET row == folderFindById(folders, calls[p].id)
     IN calls' = [calls EXCEPT ![p] = Done(@, IF row = <<>> THEN "null" ELSE "ok", row)]
  /\ UNCHANGED <<folders, documents, nextFolderId, nextDocId, clock, last>>

(* createFile(data) in a folder, with a valid name and size *)
StartCreateFile(p, ref) ==
  /\ p \notin DOMAIN calls
  /\ calls' = With(calls, p, Call("createFile", ref, {}, "findById", <<>>))
  /\ last' = Concurrent
  /\ UNCHANGED <<folders, documents, nextFolderId, nextDocId, clock>>

CreateFileFindFolder(p) ==
  /\ InFlight(p, "createFile", "findById")
  /\ calls' = [calls EXCEPT ![p] =
                 IF folderFindById(folders, @.ref) = <<>> THEN Done(@, "null", <<>>)
                 ELSE [@ EXCEPT !.pc = "insert"]]
  /\ UNCHANGED <<folders, documents, nextFolderId, nextDocId, clock, last>>

(* INSERT INTO documents: the store refuses a folder_id that names no folder *)
CreateFileInsert(p) ==
  /\ InFlight(p, "createFile", "insert")
  /\ IF ~ FkOk(folders, calls[p].ref)
     THEN /\ calls' = [calls EXCEPT ![p] = Done(@, "throws", <<>>)]
          /\ UNCHANGED <<documents, nextDocId>>
     ELSE /\ documents' = fileCreate(documents, nextDocId,
                                     FileData(NameA, 1, calls[p].ref), clock)
          /\ nextDocId' = nextDocId + 1
          /\ calls' = [calls EXCEPT ![p].pc = "read", ![p].id = nextDocId]
  /\ UNCHANGED <<folders, nextFolderId, clock, last>>

CreateFileRead(p) ==
  /\ InFlight(p, "createFile", "read")
  /\ LET row == fileFindById(documents, calls[p].id)
     IN calls' = [calls EXCEPT ![p] = Done(@, IF row = <<>> THEN "null" ELSE "ok", row)]
  /\ UNCHANGED <<folders, documents, nextFolderId, nextDocId, clock, last>>

(* moveFiles(ids, folderId) into a folder: the folder is looked up, then *)
(* moveToFolder finds the documents, updates them and reads them back    *)
StartMoveFiles(p, ids, ref) ==
  /\ p \notin DOMAIN calls
  /\ calls' = With(calls, p, Call("moveFiles", ref, ids, "findById", <<>>))
  /\ last' = Concurrent
  /\ UNCHANGED <<folders, documents, nextFolderId, nextDocId, clock>>

MoveFilesFindFolder(p) ==
  /\ InFlight(p, "moveFiles", "findById")
  /\ calls' = [calls EXCEPT ![p] =
                 IF folderFindById(folders, @.ref) = <<>> THEN Done(@, "empty", <<>>)
                 ELSE [@ EXCEPT !.pc = "findByIds"]]
  /\ UNCHANGED <<folders, documents, nextFolderId, nextDocId, clock, last>>

MoveFilesFindByIds(p) ==
  /\ InFlight(p, "moveFiles", "findByIds")
  /\ calls' = [calls EXCEPT ![p] =
                 IF fileFindByIds(documents, @.ids) = <<>> THEN Done(@, "empty", <<>>)
                 ELSE [@ EXCEPT !.pc = "update"]]
  /\ UNCHANGED <<folders, documents, nextFolderId, nextDocId, clock, last>>

(* UPDATE documents SET folder_id = ? WHERE id IN (ids): refused by the *)
(* store when a row matches and the folder is gone                     *)
MoveFilesUpdate(p) ==
  /\ InFlight(p, "moveFiles", "update")
  /\ IF calls[p].ids \cap DOMAIN documents # {} /\ ~ FkOk(folders, calls[p].ref)
     THEN /\ calls' = [calls EXCEPT ![p] = Done(@, "throws", <<>>)]
          /\ UNCHANGED documents
     ELSE /\ documents' = moveToFolder(documents, calls[p].ids, calls[p].ref)
          /\ calls' = [calls EXCEPT ![p].pc = "read"]
  /\ UNCHANGED <<folders, nextFolderId, nextDocId, clock, last>>

MoveFilesRead(p) ==
  /\ InFlight(p, "moveFiles", "read")
  /\ LET rows == fileFindByIds(documents, calls[p].ids)
     IN calls' = [calls EXCEPT ![p] = Done(@, Returned(rows), rows)]
  /\ UNCHANGED <<folders, documents, nextFolderId, nextDocId, clock, last>>

RaceFolderIds == 1..RaceMaxFolders
RaceIdLists == {{d} : d \in 1..RaceMaxDocs}

(* A tree of folders with documents is built; then deleteFolder of one of  *)
(* its folders runs together with a second request on the same folders: a  *)
(* deleteFolder, a createFolder, a createFile or a moveFiles               *)
NextRace ==
  \/ /\ DOMAIN calls = {}
     /\ nextFolderId <= RaceMaxFolders
     /\ \E r \in {NULL} \cup DOMAIN folders : createFolder(FolderData(r))
  \/ /\ DOMAIN calls = {}
     /\ nextDocId <= RaceMaxDocs
     /\ \E r \in {NULL} \cup DOMAIN folders : createFile(FileData(NameA, 1, r))
  \/ \E id \in DOMAIN folders : StartDeleteFolder(1, id)
  \/ /\ 1 \in DOMAIN calls
     /\ \E id \in RaceFolderIds : StartDeleteFolder(2, id)
  \/ /\ 1 \in DOMAIN calls
     /\ \E ref \in RaceFolderIds : StartCreateFolder(2, ref)
  \/ /\ 1 \in DOMAIN calls
     /\ \E ref \in RaceFolderIds : StartCreateFile(2, ref)
  \/ /\ 1 \in DOMAIN calls
     /\ \E ids \in RaceIdLists, ref \in RaceFolderIds : StartMoveFiles(2, ids, ref)
  \/ \E p \in DOMAIN calls : RemoveFindById(p)
  \/ \E p \in DOMAIN calls : RemoveFindAll(p)
  \/ \E p \in DOMAIN calls : RemoveDeleteDocuments(p)
  \/ \E p \in DOMAIN calls : RemoveDeleteFolder(p)
  \/ \E p \in DOMAIN calls : CreateFolderFindParent(p)
  \/ \E p \in DOMAIN calls : CreateFolderInsert(p)
  \/ \E p \in DOMAIN calls : CreateFolderRead(p)
  \/ \E p \in DOMAIN calls : CreateFileFindFolder(p)
  \/ \E p \in DOMAIN calls : CreateFileInsert(p)
  \/ \E p \in DOMAIN calls : CreateFileRead(p)
  \/ \E p \in DOMAIN calls : MoveFilesFindFolder(p)
  \/ \E p \in DOMAIN calls : MoveFilesFindByIds(p)
  \/ \E p \in DOMAIN calls : MoveFilesUpdate(p)
  \/ \E p \in DOMAIN calls : MoveFilesRead(p)

SpecRace == Init /\ [][NextRace]_vars

----------------------------------------------------------------------------
(* Request p is about to delete the row of folder X: the last statement of *)
(* an activation of remove                                                 *)
DeletingRow(p, X) ==
  /\ InFlight(p, "deleteFolder", "remove")
  /\ Top(calls[p].stack).pc = "deleteFolder"
  /\ Top(calls[p].stack).id = X

OwnedDocuments(X) == {d \in DOMAIN documents : documents[d].folder_id = X}

(* C22: during remove(F), when the row of a folder X is deleted, every     *)
(* child folder of X that the call listed is already deleted; with no      *)
(* other request running, X then has no child folder and no document left, *)
(* so that the DELETE removes the row of X and nothing else.               *)
C22_ChildrenAndDocumentsFirst ==
  [][\A p \in DOMAIN calls, X \in DOMAIN folders :
       (DeletingRow(p, X) /\ calls'[p] # calls[p]) =>
         /\ Top(calls[p].stack).seen \cap DOMAIN folders = {}
         /\ (DOMAIN calls = {p}) =>
              /\ folderFindAll(folders, X) = {}
              /\ OwnedDocuments(X) = {}
              /\ DOMAIN folders' = (DOMAIN folders) \ {X}
              /\ documents' = documents]_vars

(* deleteFolder, running alone, has removed the subfolders and the document *)
(* of a folder and is about to delete the folder's row                     *)
C22_Witness ==
  /\ DOMAIN calls = {1}
  /\ InFlight(1, "deleteFolder", "remove")
  /\ Len(calls[1].stack) = 1
  /\ Top(calls[1].stack).pc = "deleteFolder"
  /\ Top(calls[1].stack).seen # {}
  /\ nextDocId > 1
  /\ documents = <<>>

----------------------------------------------------------------------------
AllDone == DOMAIN calls = {1, 2} /\ \A p \in DOMAIN calls : calls[p].pc = "done"

(* A folder or a document refers to a folder that is not stored *)
Absent(ref) == ref # NULL /\ ref \notin DOMAIN folders

Dangling ==
  \/ \E f \in DOMAIN folders : Absent(folders[f].parent_id)
  \/ \E d \in DOMAIN documents : Absent(documents[d].folder_id)

(* The second request passed its existence check while the folder was    *)
(* stored and issued its write after deleteFolder had deleted the folder *)
WroteAfterDelete ==
  /\ AllDone
  /\ calls[1].op = "deleteFolder" /\ calls[1].res = "ok"
  /\ calls[2].op \in {"createFolder", "createFile", "moveFiles"}
  /\ calls[2].res = "throws"

(* C23 as stated: when a create (or move) has passed its existence check   *)
(* before deleteFolder removed the folder and has written afterwards, then, *)
(* both requests completed, a folder or document refers to an absent       *)
(* folder.                                                                 *)
C23_RaceLeavesDanglingRow == WroteAfterDelete => Dangling

(* C23, amended: in every interleaving of deleteFolder(F) with createFolder, *)
(* createFile or moveFiles on F or a descendant of F, no folder or document *)
(* ever refers to an absent folder: a write issued after the folder's row   *)
(* is deleted is refused by the store and inserts nothing, and a row        *)
(* inserted before it is deleted together with the folder.                  *)
C23_RaceLeavesNoDanglingRow ==
  /\ ~ Dangling
  /\ \A p \in DOMAIN calls : calls[p].res = "throws" => calls[p].id = NULL
  /\ (AllDone /\ calls[1].op = "deleteFolder" /\ calls[1].res = "ok"
        /\ calls[2].op \in {"createFolder", "createFile"}
        /\ calls[2].ref = calls[1].ref /\ calls[2].id # NULL) =>
       IF calls[2].op = "createFolder" THEN calls[2].id \notin DOMAIN folders
       ELSE calls[2].id \notin DOMAIN documents

(* The create found its folder, deleteFolder then deleted it, and the *)
(* create's INSERT came afterwards                                    *)
C23_Witness ==
  /\ WroteAfterDelete
  /\ calls[2].op = "createFile"
  /\ calls[2].ref = calls[1].ref

----------------------------------------------------------------------------
(* C29: when two deleteFolder(F) requests for the same stored folder F run *)
(* concurrently and both have returned, exactly one of them has returned   *)
(* F's record (the other the not-found result) and F is absent.            *)
C29_ExactlyOneDeleteReturnsRecord ==
  (/\ AllDone
   /\ calls[1].op = "deleteFolder" /\ calls[2].op = "deleteFolder"
   /\ calls[1].ref = calls[2].ref
   /\ \E p \in DOMAIN calls : calls[p].res = "ok") =>
    /\ Cardinality({p \in DOMAIN calls : calls[p].res = "ok"}) = 1
    /\ calls[1].ref \notin DOMAIN folders

----------------------------------------------------------------------------
(* updateFolder(id, {parent_id: ref}) with a parent, one awaited query at a *)
(* time                                                                     *)

UpdMaxFolders == 2

StartUpdateFolder(p, id, ref) ==
  /\ p \notin DOMAIN calls
  /\ calls' = With(calls, p,
                [Call("updateFolder", ref, {}, "findById", <<>>) EXCEPT !.id = id])
  /\ last' = Concurrent
  /\ UNCHANGED <<folders, documents, nextFolderId, nextDocId, clock>>

(* const existingFolder = await folderRepository.findById(id) *)
UpdateFolderFindById(p) ==
  /\ InFlight(p, "updateFolder", "findById")
  /\ calls' = [calls EXCEPT ![p] =
                 IF folderFindById(folders, @.id) = <<>> THEN Done(@, "null", <<>>)
                 ELSE [@ EXCEPT !.pc = "findParent"]]
  /\ UNCHANGED <<folders, documents, nextFolderId, nextDocId, clock, last>>

(* const parentFolder = await folderRepository.findById(data.parent_id) *)
UpdateFolderFindParent(p) ==
  /\ InFlight(p, "updateFolder", "findParent")
  /\ calls' = [calls EXCEPT ![p] =
                 IF folderFindById(folders, @.ref) = <<>> THEN Done(@, "null", <<>>)
                 ELSE [@ EXCEPT !.pc = "getPath"]]
  /\ UNCHANGED <<folders, documents, nextFolderId, nextDocId, clock, last>>

(* const parentPath = await folderRepository.getPath(data.parent_id) and *)
(* the test parentPath.some(folder => folder.id === id)                  *)
UpdateFolderGetPath(p) ==
  /\ InFlight(p, "updateFolder", "getPath")
  /\ getPathReturns(folders, calls[p].ref)
  /\ calls' = [calls EXCEPT ![p] =
                 IF PathHas(getPath(folders, @.ref), @.id) THEN Done(@, "null", <<>>)
                 ELSE [@ EXCEPT !.pc = "update"]]
  /\ UNCHANGED <<folders, documents, nextFolderId, nextDocId, clock, last>>

(* UPDATE folders SET parent_id = ? WHERE id = ?: refused by the store when *)
(* the row is there and the parent is gone                                 *)
UpdateFolderWrite(p) ==
  /\ InFlight(p, "updateFolder", "update")
  /\ IF calls[p].id \in DOMAIN folders /\ ~ FkOk(folders, calls[p].ref)
     THEN /\ calls' = [calls EXCEPT ![p] = Done(@, "throws", <<>>)]
          /\ UNCHANGED folders
     ELSE /\ folders' = folderUpdate(folders, calls[p].id, [parent_id |-> calls[p].ref])
          /\ calls' = [calls EXCEPT ![p].pc = "read"]
  /\ UNCHANGED <<documents, nextFolderId, nextDocId, clock, last>>

(* return await this.findById(id) *)
UpdateFolderRead(p) ==
  /\ InFlight(p, "updateFolder", "read")
  /\ LET row == folderFindById(folders, calls[p].id)
     IN calls' = [calls EXCEPT ![p] = Done(@, IF row = <<>> THEN "null" ELSE "ok", row)]
  /\ UNCHANGED <<folders, documents, nextFolderId, nextDocId, clock, last>>

UpdFolderIds == 1..UpdMaxFolders

(* Folders are created through the service; then two updateFolder requests *)
(* that give a folder a parent run concurrently                            *)
NextUpd ==
  \/ /\ DOMAIN calls = {}
     /\ nextFolderId <= UpdMaxFolders
     /\ \E r \in {NULL} \cup DOMAIN folders : createFolder(FolderData(r))
  \/ \E id \in UpdFolderIds, ref \in UpdFolderIds : StartUpdateFolder(1, id, ref)
  \/ /\ 1 \in DOMAIN calls
     /\ \E id \in UpdFolderIds, ref \in UpdFolderIds : StartUpdateFolder(2, id, ref)
  \/ \E p \in DOMAIN calls : UpdateFolderFindById(p)
  \/ \E p \in DOMAIN calls : UpdateFolderFindParent(p)
  \/ \E p \in DOMAIN calls : UpdateFolderGetPath(p)
  \/ \E p \in DOMAIN calls : UpdateFolderWrite(p)
  \/ \E p \in DOMAIN calls : UpdateFolderRead(p)

SpecUpd == Init /\ [][NextUpd]_vars

(* C24: with two updateFolder requests running concurrently, interleaved    *)
(* between each one's cycle check and its write, no stored folder is its    *)
(* own ancestor in any reachable state.                                     *)
C24_AcyclicUnderConcurrentUpdates ==
  \A f \in DOMAIN folders : f \notin Ancestors(folders, f)

----------------------------------------------------------------------------
(* remove(id) on the stores that the folder routes and the service build *)

TermMaxFolders == 2

TermFolderIds == 1..TermMaxFolders

(* Folders are created and re-parented through PUT /api/folders/:id; then *)
(* one deleteFolder runs, alone                                           *)
NextTerm ==
  \/ /\ DOMAIN calls = {}
     /\ nextFolderId <= TermMaxFolders
     /\ \E r \in {NULL} \cup DOMAIN folders : createFolder(FolderData(r))
  \/ /\ DOMAIN calls = {}
     /\ \E id \in DOMAIN folders, r \in {NULL} \cup DOMAIN folders :
          PutFolder(id, [parent_id |-> r])
  \/ \E id \in TermFolderIds : StartDeleteFolder(1, id)
  \/ RemoveFindById(1)
  \/ RemoveFindAll(1)
  \/ RemoveDeleteDocuments(1)
  \/ RemoveDeleteFolder(1)

SpecTerm == Init /\ [][NextTerm]_vars

(* C25: on every store reachable through the folder operations, the       *)
(* recursion of remove(id) over child folders comes to an end: remove is   *)
(* never called on a folder whose removal is still in progress (such a     *)
(* call repeats the recursion that led to it, without end).                *)
C25_RemoveRecursionEnds ==
  \A p \in DOMAIN calls : ~ Reentered(calls[p].stack)

----------------------------------------------------------------------------
(* The create stored a new document with the payload's name and size *)
Persisted(data) ==
  /\ nextDocId \notin DOMAIN documents
  /\ nextDocId \in DOMAIN documents'
  /\ documents'[nextDocId].name = data.name
  /\ documents'[nextDocId].size = data.size

(* C27: a document create with size = 0, a non-empty name and a valid      *)
(* folder reference is accepted and persisted by createFile and by         *)
(* POST /api/documents.                                                    *)
C27_ZeroSizeAccepted ==
  [][/\ \A data \in FileInputs :
          (/\ data.size = 0 /\ data.name = NameA
           /\ (data.folder_id = NULL \/ data.folder_id \in DOMAIN folders)
           /\ createFile(data))
            => (last'.res = "ok" /\ Persisted(data))
     /\ \A body \in PostBodies :
          (/\ body.size = 0 /\ body.name = NameA
           /\ (OrNull(body.folder_id) = NULL \/ body.folder_id \in DOMAIN folders)
           /\ PostDocument(body))
            => (last'.res = "201" /\ Persisted(body))]_vars

----------------------------------------------------------------------------
(* The operations of the folder service and of the file service, one at a *)
(* time                                                                   *)

SvcMaxFolders == 2
SvcMaxDocs == 1

SvcFolderIds == 1..SvcMaxFolders
SvcFolderRefs == {NULL} \cup SvcFolderIds
SvcDocIds == 1..SvcMaxDocs

NextService ==
  \/ /\ nextFolderId <= SvcMaxFolders
     /\ \E r \in SvcFolderRefs : createFolder(FolderData(r))
  \/ \E id \in SvcFolderIds, r \in SvcFolderRefs : updateFolder(id, [parent_id |-> r])
  \/ \E id \in SvcFolderIds : deleteFolder(id)
  \/ /\ nextDocId <= SvcMaxDocs
     /\ \E r \in SvcFolderRefs : createFile(FileData(NameA, 1, r))
  \/ \E id \in SvcDocIds, r \in SvcFolderRefs : updateFile(id, [folder_id |-> r])
  \/ \E ids \in SUBSET SvcDocIds, r \in SvcFolderRefs : moveFiles(ids, r)
  \/ \E id \in SvcDocIds : deleteFile(id)
  \/ \E ids \in SUBSET SvcDocIds : bulkDeleteFiles(ids)

SpecService == Init /\ [][NextService]_vars

(* C26: after any sequence of service operations executed one at a time,   *)
(* every stored document's folder_id and every stored folder's parent_id   *)
(* is null or the id of a stored folder.                                   *)
C26_NoDanglingReference ==
  /\ \A f \in DOMAIN folders :
       folders[f].parent_id = NULL \/ folders[f].parent_id \in DOMAIN folders
  /\ \A d \in DOMAIN documents :
       documents[d].folder_id = NULL \/ documents[d].folder_id \in DOMAIN folders

(* deleteFolder removed a folder together with its subfolder and a document *)
(* stored in one of the two                                                 *)
C26_Witness ==
  /\ last.op = "deleteFolder"
  /\ last.res = "ok"
  /\ last.rows[1] >= 2
  /\ last.rows[2] >= 1

----------------------------------------------------------------------------
(* The same request for another page *)
WithPage(q, page) == [q EXCEPT !.page = page]

ItemsOf(rows) == {rows[i] : i \in 1..Len(rows)}

(* The pages 1..n hold every matched item once and the pages after n are *)
(* empty                                                                 *)
FilesPartitioned(q) ==
  LET matched == SortedFiles(folders, documents, q)
      n == TotalPages(Len(matched), OrDefault(q.limit, 10))
  IN /\ \A p \in 1..n :
          Cardinality(ItemsOf(paginatedFiles(WithPage(q, p))))
            = Len(paginatedFiles(WithPage(q, p)))
     /\ \A p1, p2 \in 1..n :
          p1 # p2 => ItemsOf(paginatedFiles(WithPage(q, p1)))
                       \cap ItemsOf(paginatedFiles(WithPage(q, p2))) = {}
     /\ UNION {ItemsOf(paginatedFiles(WithPage(q, p))) : p \in 1..n} = ItemsOf(matched)
     /\ \A p \in (n + 1)..(n + 2) : paginatedFiles(WithPage(q, p)) = <<>>

UnionPartitioned(q) ==
  LET matched == unionRows(folders, documents, q.parent_id)
      n == TotalPages(Len(matched), OrDefault(q.limit, 10))
  IN /\ \A p \in 1..n :
          Cardinality(ItemsOf(unionFiles(WithPage(q, p))))
            = Len(unionFiles(WithPage(q, p)))
     /\ \A p1, p2 \in 1..n :
          p1 # p2 => ItemsOf(unionFiles(WithPage(q, p1)))
                       \cap ItemsOf(unionFiles(WithPage(q, p2))) = {}
     /\ UNION {ItemsOf(unionFiles(WithPage(q, p))) : p \in 1..n} = ItemsOf(matched)
     /\ \A p \in (n + 1)..(n + 2) : unionFiles(WithPage(q, p)) = <<>>

(* The listing of routes/files.ts alone *)
FilesPagesPartition == \A q \in Queries : QueryValid(q) => FilesPartitioned(q)

(* C28: with the store unchanged, the pages 1..totalPages of GET /api/files *)
(* (fixed limit, sort, order and filter) partition the matched items: every *)
(* matched item is on exactly one page, none appears twice, and every page  *)
(* beyond totalPages is empty; for both listing handlers.                   *)
C28_PagesPartitionMatched ==
  /\ FilesPagesPartition
  /\ \A q \in UnionQueries : UnionPartitioned(q)

----------------------------------------------------------------------------
(* Updates of folders and documents through the services, on rows created *)
(* at different times                                                     *)

PatchMaxFolders == 2
PatchMaxDocs == 1

PatchFolderIds == 1..PatchMaxFolders
PatchDocIds == 1..PatchMaxDocs

PatchFolderPatches == {[name |-> NameB], [parent_id |-> 1]}
PatchFilePatches == {[name |-> NameB], [folder_id |-> 1]}

NextPatch ==
  \/ /\ nextFolderId <= PatchMaxFolders
     /\ createFolder(FolderData(NULL))
  \/ /\ nextDocId <= PatchMaxDocs
     /\ createFile(FileData(NameA, 1, NULL))
  \/ /\ clock = 0
     /\ Tick
  \/ \E id \in PatchFolderIds, data \in PatchFolderPatches : updateFolder(id, data)
  \/ \E id \in PatchDocIds, data \in PatchFilePatches : updateFile(id, data)
  \/ \E id \in PatchDocIds, data \in PatchFilePatches : updateDocument(id, data)

SpecPatch == Init /\ [][NextPatch]_vars

(* The rows of a table after an update of row id with the patch data: the *)
(* same ids, the other rows as they were, and of the target row id,       *)
(* created_at and every field that is not in the patch as they were       *)
FrameOf(before, after, id, data) ==
  /\ DOMAIN after = DOMAIN before
  /\ \A x \in (DOMAIN before) \ {id} : after[x] = before[x]
  /\ id \in DOMAIN before =>
       /\ after[id].created_at = before[id].created_at
       /\ \A k \in (DOMAIN before[id]) \ (DOMAIN data) : after[id][k] = before[id][k]

(* C30: an update of a folder or document (updateFolder, updateFile,      *)
(* updateDocument) never changes the id or created_at of the target row,  *)
(* changes only the fields present in the patch and leaves every other    *)
(* folder and document row unchanged; the ids in use stay below the next  *)
(* id to be handed out, so that ids stay unique.                          *)
C30_UpdateFrame ==
  [][/\ (last'.op = "updateFolder") =>
          \A data \in PatchFolderPatches :
            updateFolder(last'.id, data) =>
              /\ FrameOf(folders, folders', last'.id, data)
              /\ documents' = documents
              /\ last'.res = "ok" => last'.ret[1].id = last'.id
     /\ (last'.op = "updateFile") =>
          \A data \in PatchFilePatches :
            updateFile(last'.id, data) =>
              /\ FrameOf(documents, documents', last'.id, data)
              /\ folders' = folders
              /\ last'.res = "ok" => last'.ret[1].id = last'.id
     /\ (last'.op = "updateDocument") =>
          \A data \in PatchFilePatches :
            updateDocument(last'.id, data) =>
              /\ FrameOf(documents, documents', last'.id, data)
              /\ folders' = folders
              /\ last'.res = "ok" => last'.ret[1].id = last'.id
     /\ \A f \in DOMAIN folders' : f < nextFolderId'
     /\ \A d \in DOMAIN documents' : d < nextDocId']_vars

(* The second folder was renamed some time after it was created, next to *)
(* the first folder and a document                                       *)
C30_Witness ==
  /\ last.op = "updateFolder"
  /\ last.res = "ok"
  /\ last.id = 2
  /\ folders[2].name = NameB
  /\ folders[2].created_at < clock
  /\ 1 \in DOMAIN folders
  /\ folders[1].name = NameA
  /\ documents # <<>>

====
